---------------------------- MODULE Spec2Model ----------------------------
(***************************************************************************)
(* Model of the dream-crawler crawl engine                                 *)
(* (go-backend/cmd/crawler/main_test.go, which holds the crawler's main    *)
(* package): worker pool, frontier, seen set, host policy cache, dream     *)
(* stage, publisher, shutdown sequence and link extraction.                *)
(*                                                                         *)
(* Strings of the program are TLA+ strings; url.Parse, URL.String and      *)
(* URL.ResolveReference are computed character by character over the       *)
(* alphabet the model uses (letters, digits, ':', '/', '#', '@'; no query, *)
(* userinfo, port, percent escape or dot segment occurs in any input).     *)
(* Complexity is an integer in thousandths; Surrealism in units of 1/5000. *)
(* Abstractness is an integer in thousandths.                              *)
(***************************************************************************)
EXTENDS Integers, Sequences, FiniteSets, TLC

(***************************************************************************)
(* Bounds of the model                                                     *)
(***************************************************************************)
NumMessages == 3
NumWorkers == 2
QueueSize == 2
MaxDepth == 1
MaxAnchors == 2
MaxZeroDocs == 1
MaxTicks == 6
MaxFetches == 3

(***************************************************************************)
(* Program constants                                                       *)
(***************************************************************************)
SeedPriority == 10
DropLogPriority == 5
DreamThreshold == 2500
DefaultInterval == 500
MainMinLen == 50
HeadlineMinLen == 5
ParagraphMinLen == 20
KeywordMinLen == 3
RepeatCount == 2
LongWordLen == 6
KeywordCap == 10
LimiterBurst == 1
TickMs == 250

(***************************************************************************)
(* strings package                                                         *)
(***************************************************************************)
SetMin(S) == CHOOSE x \in S : \A y \in S : x <= y
SetMax(S) == CHOOSE x \in S : \A y \in S : x >= y

Char(s, i) == SubSeq(s, i, i)

\* strings.Index, 1-based; 0 when sub does not occur (Go: -1)
Index(s, sub) ==
    LET I == {i \in 1..(Len(s) - Len(sub) + 1) : SubSeq(s, i, i + Len(sub) - 1) = sub}
    IN IF I = {} THEN 0 ELSE SetMin(I)

\* strings.LastIndex, 1-based; 0 when sub does not occur
LastIndex(s, sub) ==
    LET I == {i \in 1..(Len(s) - Len(sub) + 1) : SubSeq(s, i, i + Len(sub) - 1) = sub}
    IN IF I = {} THEN 0 ELSE SetMax(I)

HasPrefix(s, p) == Len(s) >= Len(p) /\ SubSeq(s, 1, Len(p)) = p

Contains(s, sub) == Index(s, sub) # 0

UpperLetters == "ABCDEFGHIJKLMNOPQRSTUVWXYZ"
LowerLetters == "abcdefghijklmnopqrstuvwxyz"

\* the characters of a string, as a set of one-character strings
Chars(s) == {Char(s, i) : i \in 1..Len(s)}
UpperSet == Chars(UpperLetters)
LetterSet == Chars(LowerLetters) \cup Chars(UpperLetters)
SchemeOtherSet == Chars("0123456789+-.")

\* strings.ToLower, character by character from position i on
RECURSIVE ToLowerFrom(_, _)
ToLowerFrom(s, i) ==
    IF i > Len(s) THEN ""
    ELSE (IF Char(s, i) \notin UpperSet THEN Char(s, i)
          ELSE Char(LowerLetters, Index(UpperLetters, Char(s, i))))
         \o ToLowerFrom(s, i + 1)

ToLower(s) == ToLowerFrom(s, 1)

(***************************************************************************)
(* net/url: Parse, URL.String, URL.ResolveReference                        *)
(***************************************************************************)
IsLetter(c) == c \in LetterSet
IsSchemeOther(c) == c \in SchemeOtherSet

\* getScheme: [err, scheme, rest]; scans up to the first ':' or the first
\* character that cannot be part of a scheme
RECURSIVE getSchemeFrom(_, _)
getSchemeFrom(s, i) ==
    IF i > Len(s) THEN [err |-> FALSE, scheme |-> "", rest |-> s]
    ELSE LET c == Char(s, i) IN
         IF IsLetter(c) THEN getSchemeFrom(s, i + 1)
         ELSE IF IsSchemeOther(c)
              THEN IF i = 1 THEN [err |-> FALSE, scheme |-> "", rest |-> s]
                   ELSE getSchemeFrom(s, i + 1)
         ELSE IF c = ":"
              THEN IF i = 1 THEN [err |-> TRUE, scheme |-> "", rest |-> ""]
                   ELSE [err |-> FALSE, scheme |-> SubSeq(s, 1, i - 1),
                         rest |-> SubSeq(s, i + 1, Len(s))]
         ELSE [err |-> FALSE, scheme |-> "", rest |-> s]

getScheme(s) == getSchemeFrom(s, 1)

ErrURL == [err |-> TRUE, Scheme |-> "", Opaque |-> "", Host |-> "", Path |-> "", Fragment |-> ""]

\* url.Parse: cut the fragment, read the scheme, then opaque / authority / path
urlParse(raw) ==
    LET h    == Index(raw, "#")
        u    == IF h = 0 THEN raw ELSE SubSeq(raw, 1, h - 1)
        frag == IF h = 0 THEN "" ELSE SubSeq(raw, h + 1, Len(raw))
        gs   == getScheme(u)
        rest == gs.rest
        sch  == ToLower(gs.scheme)
    IN IF gs.err THEN ErrURL
       ELSE IF ~HasPrefix(rest, "/") /\ sch # ""
            THEN [err |-> FALSE, Scheme |-> sch, Opaque |-> rest, Host |-> "",
                  Path |-> "", Fragment |-> frag]
       ELSE IF ~HasPrefix(rest, "/")
               /\ Index(rest, ":") # 0
               /\ (Index(rest, "/") = 0 \/ Index(rest, ":") < Index(rest, "/"))
            THEN ErrURL
       ELSE IF HasPrefix(rest, "//") /\ (sch # "" \/ ~HasPrefix(rest, "///"))
            THEN LET auth == SubSeq(rest, 3, Len(rest))
                     s    == Index(auth, "/")
                 IN [err |-> FALSE, Scheme |-> sch, Opaque |-> "",
                     Host |-> IF s = 0 THEN auth ELSE SubSeq(auth, 1, s - 1),
                     Path |-> IF s = 0 THEN "" ELSE SubSeq(auth, s, Len(auth)),
                     Fragment |-> frag]
       ELSE [err |-> FALSE, Scheme |-> sch, Opaque |-> "", Host |-> "",
             Path |-> rest, Fragment |-> frag]

\* URL.String
urlString(u) ==
    (IF u.Scheme # "" THEN u.Scheme \o ":" ELSE "")
    \o (IF u.Opaque # "" THEN u.Opaque
        ELSE (IF (u.Scheme # "" \/ u.Host # "") /\ (u.Host # "" \/ u.Path # "")
              THEN "//" \o u.Host ELSE "")
             \o (IF u.Path # "" /\ Char(u.Path, 1) # "/" /\ u.Host # "" THEN "/" ELSE "")
             \o u.Path)
    \o (IF u.Fragment # "" THEN "#" \o u.Fragment ELSE "")

\* resolvePath (no input of the model carries a "." or ".." segment)
resolvePath(base, ref) ==
    LET full == IF ref = "" THEN base
                ELSE IF Char(ref, 1) # "/"
                     THEN SubSeq(base, 1, LastIndex(base, "/")) \o ref
                     ELSE ref
    IN IF full = "" THEN ""
       ELSE IF Char(full, 1) = "/" THEN full ELSE "/" \o full

\* URL.ResolveReference
ResolveReference(b, ref) ==
    LET sch == IF ref.Scheme = "" THEN b.Scheme ELSE ref.Scheme
    IN IF ref.Scheme # "" \/ ref.Host # ""
       THEN [ref EXCEPT !.Scheme = sch, !.Path = resolvePath(ref.Path, "")]
       ELSE IF ref.Opaque # ""
            THEN [ref EXCEPT !.Scheme = sch, !.Host = "", !.Path = ""]
       ELSE [ref EXCEPT !.Scheme = sch,
                        !.Host = b.Host,
                        !.Path = resolvePath(b.Path, ref.Path),
                        !.Fragment = IF ref.Path = "" /\ ref.Fragment = ""
                                     THEN b.Fragment ELSE ref.Fragment]

\* URL.Parse(ref): parse ref, then resolve it against the receiver
urlParseRef(b, ref) ==
    LET r == urlParse(ref)
    IN IF r.err THEN ErrURL ELSE ResolveReference(b, r)

max(a, b) == IF a > b THEN a ELSE b
min(a, b) == IF a < b THEN a ELSE b

(***************************************************************************)
(* extractLinksWithPriority                                                *)
(***************************************************************************)
\* faulty variant: the depth of the child decides the reduction
LinkPriorityByChildDepth(internal, linkText, currentDepth) ==
    LET p0 == IF internal THEN 3 ELSE 1
        p1 == IF Contains(ToLower(linkText), "article")
                 \/ Contains(ToLower(linkText), "news")
                 \/ Contains(ToLower(linkText), "blog")
              THEN p0 + 2 ELSE p0
    IN IF currentDepth + 1 >= 2 THEN max(1, p1 - 1) ELSE p1

\* faulty variant: a link to another host starts at 0
LinkPriorityExternalZero(internal, linkText, currentDepth) ==
    LET p0 == IF internal THEN 3 ELSE 0
        p1 == IF Contains(ToLower(linkText), "article")
                 \/ Contains(ToLower(linkText), "news")
                 \/ Contains(ToLower(linkText), "blog")
              THEN p0 + 2 ELSE p0
    IN IF currentDepth >= 2 THEN max(1, p1 - 1) ELSE p1

\* the Priority part of the callback
LinkPriority(internal, linkText, currentDepth) ==
    LET p0 == IF internal THEN 3 ELSE 1
        p1 == IF Contains(ToLower(linkText), "article")
                 \/ Contains(ToLower(linkText), "news")
                 \/ Contains(ToLower(linkText), "blog")
              THEN p0 + 2 ELSE p0
    IN IF currentDepth >= 2 THEN max(1, p1 - 1) ELSE p1

\* faulty variant: the test of the resolved scheme is missing
AcceptHrefNoSchemeCheck(b, href) ==
    /\ ~(Len(href) < 2 \/ HasPrefix(href, "#"))
    /\ ~urlParseRef(b, href).err

\* the early returns of the callback: TRUE when the anchor yields a link
AcceptHref(b, href) ==
    /\ ~(Len(href) < 2 \/ HasPrefix(href, "#"))
    /\ ~urlParseRef(b, href).err
    /\ ~(urlParseRef(b, href).Scheme # "http" /\ urlParseRef(b, href).Scheme # "https")

\* the callback of doc.Find("a[href]").Each: the links one anchor appends
LinkCallback(b, a, currentDepth) ==
    IF ~AcceptHref(b, a.href) THEN <<>>
    ELSE LET r == urlParseRef(b, a.href)
             internal == (r.Host = b.Host)
         IN << [URL |-> urlString(r),
                Text |-> a.text,
                Type |-> IF internal THEN "internal" ELSE "external",
                Priority |-> LinkPriority(internal, a.text, currentDepth)] >>

\* doc.Find("a[href]").Each from the i-th anchor on, in document order
RECURSIVE EachAnchor(_, _, _, _)
EachAnchor(b, anchors, i, currentDepth) ==
    IF i > Len(anchors) THEN <<>>
    ELSE LinkCallback(b, anchors[i], currentDepth)
         \o EachAnchor(b, anchors, i + 1, currentDepth)

extractLinksWithPriority(anchors, baseURL, currentDepth) ==
    EachAnchor(urlParse(baseURL), anchors, 1, currentDepth)

(***************************************************************************)
(* The site the crawler runs against                                       *)
(***************************************************************************)
Anchor(h, t) == [href |-> h, text |-> t]

\* what the server answers for a URL: status, title, clean text, a[href]
\* elements in document order, number of chunks and media assets; every
\* request is answered by the host it is sent to (the site has no redirect)
Page(u) ==
    CASE u = "http://a/" ->
           [status |-> 200, title |-> "", text |-> "hello",
            anchors |-> << Anchor("#top", "top"), Anchor("/p", "Article one"),
                           Anchor("mailto:x@a", "mail") >>,
            chunks |-> 0, media |-> 0]
      [] u = "http://a/p" ->
           [status |-> 200, title |-> "", text |-> "art",
            anchors |-> << Anchor("qq", "next"), Anchor("/", "home"),
                           Anchor("ftp://a/f", "files") >>,
            chunks |-> 0, media |-> 5]
      [] u = "http://a/qq" ->
           [status |-> 200, title |-> "", text |-> "hello",
            anchors |-> << Anchor("/p#s", "back") >>,
            chunks |-> 0, media |-> 0]
      [] u = "http://a/private/x" ->
           [status |-> 200, title |-> "", text |-> "hello",
            anchors |-> << Anchor("http://b/x", "other") >>,
            chunks |-> 0, media |-> 0]
      [] u = "http://b/" ->
           [status |-> 200, title |-> "home", text |-> "joy magic dream art idea",
            anchors |-> << Anchor("http://b/", "news") >>,
            chunks |-> 0, media |-> 0]
      [] u = "http://c/" ->
           [status |-> 200, title |-> "", text |-> "hello",
            anchors |-> << Anchor("/x", "next") >>,
            chunks |-> 0, media |-> 0]
      [] u = "http://c/x" ->
           [status |-> 200, title |-> "", text |-> "hello",
            anchors |-> << Anchor("/y", "next") >>,
            chunks |-> 0, media |-> 0]
      [] OTHER ->
           [status |-> 404, title |-> "", text |-> "", anchors |-> <<>>,
            chunks |-> 0, media |-> 0]

\* URLs whose request can fail in transport
Flaky == {"http://a/private/x"}

\* what the server answers for scheme://host/robots.txt: the status and, for
\* the group of the crawler's user agent, the Disallow prefixes and Crawl-Delay
NilRobots == [set |-> FALSE, disallow |-> {}, crawlDelay |-> 0]

RobotsTxt(host) ==
    CASE host = "a" -> [status |-> 200, disallow |-> {"/private"}, crawlDelay |-> 1]
      [] OTHER      -> [status |-> 404, disallow |-> {}, crawlDelay |-> 0]

Workers == 1..NumWorkers

(***************************************************************************)
(* Annotator: scores in units of 1/5000 (Surrealism 2500 = 0.5);           *)
(* Complexity in thousandths                                               *)
(***************************************************************************)
AnyContains(text, words) == \E i \in 1..Len(words) : Contains(text, words[i])

detectEmotions(text) ==
    LET pos == IF AnyContains(text, <<"amazing", "beautiful", "wonderful", "great",
                                      "love", "happy", "joy", "success">>)
               THEN <<"positive">> ELSE <<>>
        neg == IF AnyContains(text, <<"terrible", "awful", "hate", "sad", "fear",
                                      "anger", "pain", "failure">>)
               THEN <<"dark">> ELSE <<>>
        mys == IF AnyContains(text, <<"mystery", "magic", "dream", "vision", "spirit",
                                      "soul", "ethereal", "cosmic">>)
               THEN <<"mystical">> ELSE <<>>
        e   == pos \o neg \o mys
    IN IF e = <<>> THEN <<"neutral">> ELSE e

detectThemes(text) ==
    (IF AnyContains(text, <<"technology", "ai", "computer", "digital", "software",
                            "algorithm">>) THEN <<"technology">> ELSE <<>>)
    \o (IF AnyContains(text, <<"art", "creative", "design", "visual", "aesthetic",
                               "beauty">>) THEN <<"creative">> ELSE <<>>)
    \o (IF AnyContains(text, <<"science", "research", "discovery", "experiment",
                               "analysis">>) THEN <<"scientific">> ELSE <<>>)

\* the words of the list that occur in the text, in list order
FilterContained(text, words) ==
    LET Test(word) == Contains(text, word) IN SelectSeq(words, Test)

extractVisualMotifs(text) ==
    FilterContained(text, <<"light", "shadow", "color", "bright", "dark", "crystal",
                            "liquid", "flowing", "geometric", "organic">>)

\* len(strings.Fields(s)) for texts whose only white space is single blanks
WordCount(s) ==
    Cardinality({i \in 1..Len(s) :
                   Char(s, i) # " " /\ (i = 1 \/ Char(s, i - 1) = " ")})

calculateComplexity(words, chunks, media) ==
    min(1000, words + chunks * 100 + media * 200)

\* faulty variant: the sum is returned without the cap at 1
calculateSurrealismPotentialUncapped(emotions, themes, motifs, complexity) ==
    (IF Len(emotions) > 1 THEN 1500 ELSE 0)
    + (IF \E i \in 1..Len(emotions) : emotions[i] = "mystical" THEN 2000 ELSE 0)
    + (IF \E i \in 1..Len(themes) : themes[i] = "creative" THEN 1500 ELSE 0)
    + Len(motifs) * 250
    + complexity

calculateSurrealismPotential(emotions, themes, motifs, complexity) ==
    min(5000,
        (IF Len(emotions) > 1 THEN 1500 ELSE 0)
        + (IF \E i \in 1..Len(emotions) : emotions[i] = "mystical" THEN 2000 ELSE 0)
        + (IF \E i \in 1..Len(themes) : themes[i] = "creative" THEN 1500 ELSE 0)
        + Len(motifs) * 250
        + complexity)

\* 0.1 for every abstract word in the text and 0.05 for every emotion, at
\* most 1 (in thousandths)
calculateAbstractness(text, emotions) ==
    min(1000,
        Len(FilterContained(text, <<"concept", "idea", "essence", "meaning",
                                    "philosophy", "abstract", "theory",
                                    "metaphor">>)) * 100
        + Len(emotions) * 50)

ZeroHints == [Emotions |-> <<>>, Themes |-> <<>>, Motifs |-> <<>>,
              Complexity |-> 0, Surrealism |-> 0, Abstractness |-> 0]

generateDreamHints(cleanText, title, chunks, media) ==
    LET text == ToLower(cleanText \o " " \o title)
        e == detectEmotions(text)
        t == detectThemes(text)
        m == extractVisualMotifs(text)
        c == calculateComplexity(WordCount(cleanText), chunks, media)
    IN [Emotions |-> e, Themes |-> t, Motifs |-> m, Complexity |-> c,
        Surrealism |-> calculateSurrealismPotential(e, t, m, c),
        Abstractness |-> calculateAbstractness(text, e)]

(***************************************************************************)
(* The parsed page: the children of <body> in document order, each with    *)
(* its tag ("#text" for a text node) and the text it contains; an element   *)
(* that lies inside a header, nav, footer ... is listed in the place of its *)
(* container, with the container's tag in the field in; an a element has    *)
(* its href                                                                 *)
(***************************************************************************)
Node(tag, text) == [tag |-> tag, text |-> text, in |-> "", href |-> ""]

Inside(container, n) == [n EXCEPT !.in = container]

WhiteSpace == {" ", "\n", "\t"}

\* strings.Trim(s, cutset), the cutset given as a set of characters
Trim(s, cutset) ==
    LET keep == {i \in 1..Len(s) : Char(s, i) \notin cutset}
    IN IF keep = {} THEN "" ELSE SubSeq(s, SetMin(keep), SetMax(keep))

TrimSpace(s) == Trim(s, WhiteSpace)

\* Selection.Text(): the text of the nodes from position i on, concatenated
RECURSIVE TextFrom(_, _)
TextFrom(nodes, i) ==
    IF i > Len(nodes) THEN "" ELSE nodes[i].text \o TextFrom(nodes, i + 1)

\* strings.Join(parts, sep) from position i on
RECURSIVE JoinFrom(_, _, _)
JoinFrom(parts, i, sep) ==
    IF i > Len(parts) THEN ""
    ELSE IF i = Len(parts) THEN parts[i]
    ELSE parts[i] \o sep \o JoinFrom(parts, i + 1, sep)

RemovedTags == {"script", "style", "noscript", "nav", "footer", "header", "aside"}
MainTags == {"main", "article"}

\* d.Find("script, style, ...").Remove(): the document is changed in place,
\* so every later pass over it sees what is left
RemoveNonContent(body) ==
    LET Kept(n) == n.tag \notin RemovedTags /\ n.in \notin RemovedTags
    IN SelectSeq(body, Kept)

extractText(body) ==
    LET d == RemoveNonContent(body)
        IsMain(n) == n.tag \in MainTags
        mainContent == SelectSeq(d, IsMain)
        texts == [i \in 1..Len(mainContent) |-> TrimSpace(mainContent[i].text)]
        Long(t) == Len(t) > MainMinLen
    IN IF Len(mainContent) > 0
       THEN JoinFrom(SelectSeq(texts, Long), 1, "\n\n")
       ELSE TrimSpace(TextFrom(d, 1))

\* the characters cleanText keeps: \w, \s and .,!?;:'"()-
CleanSet == LetterSet \cup Chars("0123456789_") \cup WhiteSpace
            \cup Chars(".,!?;:'\"()-")

RECURSIVE KeepFrom(_, _, _)
KeepFrom(s, i, set) ==
    IF i > Len(s) THEN ""
    ELSE (IF Char(s, i) \in set THEN Char(s, i) ELSE "") \o KeepFrom(s, i + 1, set)


\* strings.Fields: the positions where a word starts, and the word there
WordStarts(s) ==
    {i \in 1..Len(s) :
       Char(s, i) \notin WhiteSpace /\ (i = 1 \/ Char(s, i - 1) \in WhiteSpace)}

WordAt(s, i) ==
    SubSeq(s, i, SetMin({j \in i..Len(s) :
                           j = Len(s) \/ Char(s, j + 1) \in WhiteSpace}))

\* strings.Fields(s) in order
Fields(s) ==
    LET starts == WordStarts(s)
        Nth(k) == CHOOSE i \in starts : Cardinality({j \in starts : j <= i}) = k
    IN [k \in 1..Cardinality(starts) |-> WordAt(s, Nth(k))]

\* regexp \s+ replaced by one blank
Collapse(s) ==
    (IF Len(s) > 0 /\ Char(s, 1) \in WhiteSpace THEN " " ELSE "")
    \o JoinFrom(Fields(s), 1, " ")
    \o (IF Len(s) > 0 /\ Char(s, Len(s)) \in WhiteSpace /\ WordStarts(s) # {}
        THEN " " ELSE "")

\* cleanText: white space collapsed, the characters outside CleanSet removed
\* (white space is in CleanSet, so this is done word by word), then trimmed
cleanText(text) ==
    LET words == Fields(text)
        cleaned == [k \in 1..Len(words) |-> KeepFrom(words[k], 1, CleanSet)]
    IN TrimSpace(JoinFrom(cleaned, 1, " "))

StopWords ==
    {"the", "a", "an", "and", "or", "but", "in", "on", "at", "to", "for", "of",
     "with", "by", "is", "are", "was", "were", "be", "been", "have", "has", "had",
     "do", "does", "did", "will", "would", "could", "should", "this", "that",
     "these", "those", "i", "you", "he", "she", "it", "we", "they"}

\* the map wordCount of extractKeywords
wordCount(text) ==
    LET low == ToLower(text)
        starts == WordStarts(low)
        words == [i \in starts |-> Trim(WordAt(low, i), Chars(".,!?;:"))]
        counted == {i \in starts :
                      Len(words[i]) > KeywordMinLen /\ words[i] \notin StopWords}
    IN [w \in {words[i] : i \in counted} |->
          Cardinality({i \in counted : words[i] = w})]

\* extractKeywords: "for word, count := range wordCount" visits the map in an
\* order the Go runtime chooses anew for every loop, so each order of the
\* qualifying words is a possible result, cut off at KeywordCap
extractKeywords(text) ==
    LET wc == wordCount(text)
        q  == {w \in DOMAIN wc : wc[w] >= RepeatCount \/ Len(w) > LongWordLen}
        k  == min(Cardinality(q), KeywordCap)
    IN {f \in [1..k -> q] : \A i, j \in 1..k : i # j => f[i] # f[j]}

\* strconv for the chunk numbers that occur (0..9)
Itoa(n) == SubSeq("0123456789", n + 1, n + 1)

HeadlineTags == {"h1", "h2", "h3", "h4", "h5", "h6"}
QuoteTags == {"blockquote", "q"}

\* faulty variant: a chunk is numbered by the index the Each callback gets,
\* which restarts at 0 for every selector
ChunkListByCallbackIndex(d) ==
    LET IsH(n) == n.tag \in HeadlineTags /\ Len(TrimSpace(n.text)) > HeadlineMinLen
        IsP(n) == n.tag = "p" /\ Len(TrimSpace(n.text)) > ParagraphMinLen
        IsQ(n) == n.tag \in QuoteTags /\ TrimSpace(n.text) # ""
        hs == SelectSeq(d, IsH)
        ps == SelectSeq(d, IsP)
        all == hs \o ps \o SelectSeq(d, IsQ)
        Idx(i) == IF i <= Len(hs) THEN i - 1
                  ELSE IF i <= Len(hs) + Len(ps) THEN i - 1 - Len(hs)
                  ELSE i - 1 - Len(hs) - Len(ps)
    IN [i \in 1..Len(all) |->
          [ID |-> (IF all[i].tag \in HeadlineTags THEN "h_"
                   ELSE IF all[i].tag = "p" THEN "p_" ELSE "q_") \o Itoa(Idx(i)),
           Type |-> IF all[i].tag \in HeadlineTags THEN "headline"
                    ELSE IF all[i].tag = "p" THEN "paragraph" ELSE "quote",
           Text |-> TrimSpace(all[i].text),
           Position |-> Idx(i),
           Confidence |-> IF all[i].tag \in HeadlineTags THEN 90
                          ELSE IF all[i].tag = "p" THEN 80 ELSE 85]]

\* extractContentChunks without the keyword lists: headlines, then
\* paragraphs, then quotes, numbered by one counter
ChunkList(d) ==
    LET IsH(n) == n.tag \in HeadlineTags /\ Len(TrimSpace(n.text)) > HeadlineMinLen
        IsP(n) == n.tag = "p" /\ Len(TrimSpace(n.text)) > ParagraphMinLen
        IsQ(n) == n.tag \in QuoteTags /\ TrimSpace(n.text) # ""
        all == SelectSeq(d, IsH) \o SelectSeq(d, IsP) \o SelectSeq(d, IsQ)
    IN [i \in 1..Len(all) |->
          [ID |-> (IF all[i].tag \in HeadlineTags THEN "h_"
                   ELSE IF all[i].tag = "p" THEN "p_" ELSE "q_") \o Itoa(i - 1),
           Type |-> IF all[i].tag \in HeadlineTags THEN "headline"
                    ELSE IF all[i].tag = "p" THEN "paragraph" ELSE "quote",
           Text |-> TrimSpace(all[i].text),
           Position |-> i - 1,
           Confidence |-> IF all[i].tag \in HeadlineTags THEN 90
                          ELSE IF all[i].tag = "p" THEN 80 ELSE 85]]

\* extractContentChunks: every result it can give for the document
extractContentChunks(d) ==
    LET base == ChunkList(d)
        n == Len(base)
        all == UNION {extractKeywords(base[i].Text) : i \in 1..n}
    IN {[i \in 1..n |-> [ID |-> base[i].ID, Type |-> base[i].Type,
                         Text |-> base[i].Text, Position |-> base[i].Position,
                         Confidence |-> base[i].Confidence,
                         Keywords |-> ks[i]]] :
          ks \in {f \in [1..n -> all] :
                    \A i \in 1..n : f[i] \in extractKeywords(base[i].Text)}}

\* the parse/annotate pass of enhancedFetchAndParse over a fetched page:
\* every result it can give
ParsePass(body, rawurl) ==
    LET text == extractText(body)
        clean == cleanText(text)
        d == RemoveNonContent(body)
        IsA(n) == n.tag = "a"
        as == SelectSeq(d, IsA)
        anchors == [i \in 1..Len(as) |-> Anchor(as[i].href, as[i].text)]
    IN {[Text |-> text, Chunks |-> c,
         Links |-> extractLinksWithPriority(anchors, rawurl, 0),
         DreamHints |-> generateDreamHints(clean, "", Len(c), 0)] :
          c \in extractContentChunks(d)}

\* the zero value of Document (what a receive from a closed channel yields)
ZeroDoc == [URL |-> "", Status |-> 0, Title |-> "", Text |-> "", Links |-> <<>>,
            DreamHints |-> ZeroHints]

\* faulty variant: the status of the response is not looked at
enhancedFetchAndParseAnyStatus(rawurl, depth) ==
    LET pg == Page(rawurl)
    IN [doc |-> [URL |-> rawurl, Status |-> pg.status, Title |-> pg.title,
                 Text |-> pg.text, Links |-> <<>>,
                 DreamHints |-> generateDreamHints(pg.text, pg.title,
                                                   pg.chunks, pg.media)],
        links |-> extractLinksWithPriority(pg.anchors, rawurl, depth)]

\* enhancedFetchAndParse once the response has arrived: [doc, links]
enhancedFetchAndParse(rawurl, depth) ==
    LET pg == Page(rawurl)
    IN IF pg.status # 200
       THEN [doc |-> [ZeroDoc EXCEPT !.URL = rawurl, !.Status = pg.status],
             links |-> <<>>]
       ELSE [doc |-> [URL |-> rawurl, Status |-> pg.status, Title |-> pg.title,
                      Text |-> pg.text, Links |-> <<>>,
                      DreamHints |-> generateDreamHints(pg.text, pg.title,
                                                        pg.chunks, pg.media)],
             links |-> extractLinksWithPriority(pg.anchors, rawurl, depth)]

(***************************************************************************)
(* State                                                                   *)
(***************************************************************************)
VARIABLES
    seeds,            \* flag.Args(): the seed URLs
    enableDreaming,   \* flag --enable-dreaming
    allowedDomains,   \* hosts of --domains; {} when the flag is empty (nil map)
    urlQueue,         \* frontier channel: sequence of URLWithMetadata
    seen,             \* sync.Map of claimed URLs
    hostMap,          \* host -> hostPolicies (robots, lim), guarded by hpMu
    robotsPc,         \* host -> position of its fetchRobotsTxt task
    wpc,              \* worker -> position in enhancedWorker
    wcur,             \* worker -> urlMeta being processed
    wobs,             \* worker -> hp.robots as read by its robots check
    wdoc,             \* worker -> doc returned by enhancedFetchAndParse
    wlinks,           \* worker -> newLinks not yet offered to the frontier
    seedIdx,          \* seeder: index of the next seed to enqueue
    dpPc, dpDoc,      \* dream processor / pass-through stage
    prodPc, prodDoc,  \* enhancedProducer
    mainPc,           \* main after the goroutines are started
    ctxDone,          \* root context cancelled
    closed,           \* channel -> number of close() calls
    panicked,         \* a goroutine panicked (send on closed channel)
    stats,            \* CrawlerStats
    published,        \* messages handed to producer.Produce, in order
    flushedLen,       \* number of messages produced when Flush was called
    fetches,          \* history: HTTP page requests issued
    claims,           \* history: seen.LoadOrStore calls per URL
    emitted,          \* history: Documents received from the worker output channel
    skipped,          \* history: URLs a worker gave up, with the reason
    ls,               \* link-extraction run (LinkSpec)
    rl,               \* one host's limiter, its clock and its fetches (RateSpec)
    an,               \* one page and two parse/annotate passes over it (AnnotSpec)
    cp                \* the content processor on one raw.content partition (ProcSpec)

vars == << seeds, enableDreaming, allowedDomains, urlQueue, seen, hostMap, robotsPc,
           wpc, wcur, wobs, wdoc, wlinks, seedIdx, dpPc, dpDoc, prodPc, prodDoc,
           mainPc, ctxDone, closed, panicked, stats, published,
           flushedLen, fetches, claims, emitted, skipped, ls, rl, an, cp >>

cfgVars    == << seeds, enableDreaming, allowedDomains, ls, rl, an, cp >>
workerVars == << wpc, wcur, wobs, wdoc, wlinks >>
stageVars  == << dpPc, dpDoc, prodPc, prodDoc >>
mainVars   == << mainPc, ctxDone, closed, flushedLen >>
histVars   == << fetches, claims, emitted, skipped >>

ZeroEntry == [URL |-> "", depth |-> 0, parent |-> "", priority |-> 0]

IdleLs == [base |-> "", depth |-> 0, anchors |-> <<>>, idx |-> 1,
           links |-> <<>>, src |-> <<>>, offered |-> 0]

IdleAn == [pc |-> "idle", page |-> << >>, run1 |-> << >>, run2 |-> << >>]

\* the content processor before Start: the partition's messages (decodes:
\* offset + 1 -> whether json.Unmarshal accepts the value), the consumer's
\* position, the task of each offset, the offsets handed to the producer in
\* order, and the committed offset of the group
IdleCp == [decodes |-> <<>>, pos |-> 0, task |-> <<>>, produced |-> <<>>,
           committed |-> 0, commits |-> {}]

\* hp.lim as rate.NewLimiter(rate.Every(500*time.Millisecond), 1) leaves it:
\* a full bucket; tokens are counted in units of 1/TokUnit
TokUnit == (DefaultInterval \div TickMs) * ((RobotsTxt("a").crawlDelay * 1000) \div TickMs)

NewLimiter == [interval |-> DefaultInterval, tokens |-> LimiterBurst * TokUnit, last |-> 0]

IdleRl == [now |-> 0, lim |-> NewLimiter, robots |-> "done", wk |-> << >>,
           grants |-> {}, completed |-> {}, left |-> 0]

\* the state after main has started every goroutine (lines 262-326)
SystemInit ==
    /\ urlQueue = <<>>
    /\ seen = {}
    /\ hostMap = << >>
    /\ robotsPc = << >>
    /\ wpc = [w \in Workers |-> "select"]
    /\ wcur = [w \in Workers |-> ZeroEntry]
    /\ wobs = [w \in Workers |-> NilRobots]
    /\ wdoc = [w \in Workers |-> ZeroDoc]
    /\ wlinks = [w \in Workers |-> <<>>]
    /\ seedIdx = 1
    /\ dpPc = "select"
    /\ dpDoc = ZeroDoc
    /\ prodPc = "range"
    /\ prodDoc = ZeroDoc
    /\ mainPc = "timer"
    /\ ctxDone = FALSE
    /\ closed = [rawOut |-> 0, dreamOut |-> 0]
    /\ panicked = FALSE
    /\ stats = [PagesProcessed |-> 0, Errors |-> 0, DreamsGenerated |-> 0,
                BytesProcessed |-> 0]
    /\ published = <<>>
    /\ flushedLen = 0
    /\ fetches = {}
    /\ claims = [attempts |-> << >>, wins |-> << >>]
    /\ emitted = {}
    /\ skipped = {}

\* the command lines the model runs: seed URLs, --enable-dreaming, --domains
Scenarios ==
    { [seeds |-> << "http://a/" >>, dreaming |-> TRUE, domains |-> {}],
      [seeds |-> <<"http://b/", "http://b/", "http://b/x">>, dreaming |-> FALSE, domains |-> {}],
      [seeds |-> << "http://a/private/x", "http://b/", ":bad" >>, dreaming |-> TRUE,
       domains |-> {"a"}],
      [seeds |-> << "http://c/", "http://c/y" >>, dreaming |-> FALSE,
       domains |-> {}] }

Init ==
    /\ \E sc \in Scenarios :
         /\ seeds = sc.seeds
         /\ enableDreaming = sc.dreaming
         /\ allowedDomains = sc.domains
    /\ ls = IdleLs
    /\ rl = IdleRl
    /\ an = IdleAn
    /\ cp = IdleCp
    /\ SystemInit

\* every URL string a run can hold: the seeds of the scenarios and the links
\* extracted from the pages of the site
URLs == {"http://a/", "http://a/p", "http://a/qq", "http://a/p#s",
         "http://a/private/x", "http://b/", "http://b/x", ":bad",
         "http://c/", "http://c/x", "http://c/y"}

\* url.Parse and enhancedFetchAndParse, tabulated once over the URLs and
\* depths of the model
Parsed == [u \in URLs |-> urlParse(u)]
Fetched == [u \in URLs, d \in 0..(MaxDepth + 1) |-> enhancedFetchAndParse(u, d)]

\* the process is alive: main has not returned and nothing has panicked
Running == mainPc # "exited" /\ ~panicked

\* add one to the count of k in the bag f
\* faulty variant: an error is counted twice
IncrementErrorsTwice(s) == [s EXCEPT !.Errors = @ + 2]

\* faulty variant: the error is not counted
IncrementErrorsNot(s) == s

\* CrawlerStats.IncrementErrors
IncrementErrors(s) == [s EXCEPT !.Errors = @ + 1]

\* faulty variant: a page is counted twice
IncrementPagesTwice(s) == [s EXCEPT !.PagesProcessed = @ + 2]

\* CrawlerStats.IncrementPages
IncrementPages(s) == [s EXCEPT !.PagesProcessed = @ + 1]

Bump(f, k) == IF k \in DOMAIN f THEN [f EXCEPT ![k] = @ + 1] ELSE f @@ (k :> 1)
Count(f, k) == IF k \in DOMAIN f THEN f[k] ELSE 0

(***************************************************************************)
(* enhancedWorker                                                          *)
(***************************************************************************)
\* faulty variant: a Load that stores nothing
LoadOrStoreLoadOnly(s, u) == [loaded |-> u \in s, set |-> s]

\* seen.LoadOrStore(url, true): atomic insert-if-absent
LoadOrStore(s, u) == [loaded |-> u \in s, set |-> s \cup {u}]

\* faulty variant: the depth test is off by one
TooDeepOffByOne(depth) == depth > MaxDepth + 1

\* urlMeta.Metadata.depth > *maxDepth
TooDeep(depth) == depth > MaxDepth

\* faulty variant: the whitelist test never rejects
OutsideWhitelistNever(host) == FALSE

\* allowedDomains != nil && !allowedDomains[parsed.Host]
OutsideWhitelist(host) == allowedDomains # {} /\ host \notin allowedDomains

\* robots.TestAgent(path, agent): no Disallow prefix of the agent's group
\* matches the path
TestAgent(robots, path) == \A d \in robots.disallow : ~HasPrefix(path, d)

\* faulty variant: the robots test never rejects
DisallowedNever(robots, path) == FALSE

\* hp.robots != nil && !hp.robots.TestAgent(parsed.Path, agent)
Disallowed(robots, path) == robots.set /\ ~TestAgent(robots, path)

\* the values an unsynchronised read of hp.robots can return: the pointer is
\* written by the robots task without a lock, so a reader can still see nil
RacyRead(robots) == {robots, NilRobots}

Back(w, reason) ==
    /\ wpc' = [wpc EXCEPT ![w] = "select"]
    /\ skipped' = skipped \cup {[URL |-> wcur[w].URL, depth |-> wcur[w].depth,
                                 reason |-> reason]}

\* case <-ctx.Done(): return
WorkerExit(w) ==
    /\ Running
    /\ wpc[w] = "select"
    /\ ctxDone
    /\ wpc' = [wpc EXCEPT ![w] = "done"]
    /\ UNCHANGED << cfgVars, urlQueue, seen, hostMap, robotsPc, wcur, wobs, wdoc,
                    wlinks, seedIdx, stageVars, mainVars, panicked,
                    stats, published, histVars >>

\* case urlMeta := <-urlQueue, and the empty-URL test
Dequeue(w) ==
    /\ Running
    /\ wpc[w] = "select"
    /\ urlQueue # <<>>
    /\ urlQueue' = Tail(urlQueue)
    /\ wcur' = [wcur EXCEPT ![w] = Head(urlQueue)]
    /\ wpc' = [wpc EXCEPT ![w] = IF Head(urlQueue).URL = "" THEN "select" ELSE "claim"]
    /\ UNCHANGED << cfgVars, seen, hostMap, robotsPc, wobs, wdoc, wlinks, seedIdx,
                    stageVars, mainVars, panicked, stats, published,
                    histVars >>

\* faulty variant: the lookup always misses
LookupMiss(m, h) == FALSE

\* hp, ok := hostMap[host] under hpMu: ok
Lookup(m, h) == h \in DOMAIN m

\* faulty variant: the depth test comes before the claim in the seen set
ClaimAfterDepthTest(w) ==
    /\ Running
    /\ wpc[w] = "claim"
    /\ LET u == wcur[w].URL
           r == LoadOrStore(seen, u)
           parsed == Parsed[u]
           pass == ~r.loaded /\ ~TooDeep(wcur[w].depth) /\ ~parsed.err
                   /\ ~OutsideWhitelist(parsed.Host)
       IN /\ seen' = IF TooDeep(wcur[w].depth) THEN seen ELSE r.set
          /\ claims' = IF TooDeep(wcur[w].depth) THEN claims
                       ELSE [attempts |-> Bump(claims.attempts, u),
                             wins |-> IF r.loaded THEN claims.wins
                                      ELSE Bump(claims.wins, u)]
          /\ IF TooDeep(wcur[w].depth) THEN Back(w, "depth")
             ELSE IF r.loaded THEN Back(w, "duplicate")
             ELSE IF parsed.err THEN Back(w, "badurl")
             ELSE IF OutsideWhitelist(parsed.Host) THEN Back(w, "whitelist")
             ELSE wpc' = [wpc EXCEPT ![w] = "robots"] /\ UNCHANGED skipped
          /\ stats' = IF ~r.loaded /\ ~TooDeep(wcur[w].depth) /\ parsed.err
                      THEN IncrementErrors(stats) ELSE stats
          /\ IF pass /\ ~Lookup(hostMap, parsed.Host)
             THEN /\ hostMap' =
                       (parsed.Host :> [robots |-> NilRobots,
                                        lim |-> [interval |-> DefaultInterval,
                                                 burst |-> LimiterBurst]])
                       @@ hostMap
                  /\ robotsPc' = (parsed.Host :> "get") @@ robotsPc
             ELSE UNCHANGED << hostMap, robotsPc >>
    /\ UNCHANGED << cfgVars, urlQueue, wcur, wobs, wdoc, wlinks, seedIdx, stageVars,
                    mainVars, panicked, published, fetches, emitted >>

\* faulty variant: the host's policies are looked up or created before the
\* whitelist test
ClaimPoliciesBeforeWhitelist(w) ==
    /\ Running
    /\ wpc[w] = "claim"
    /\ LET u == wcur[w].URL
           r == LoadOrStore(seen, u)
           parsed == Parsed[u]
           pass == ~r.loaded /\ ~TooDeep(wcur[w].depth) /\ ~parsed.err
                   /\ ~OutsideWhitelist(parsed.Host)
       IN /\ seen' = r.set
          /\ claims' = [attempts |-> Bump(claims.attempts, u),
                        wins |-> IF r.loaded THEN claims.wins ELSE Bump(claims.wins, u)]
          /\ IF r.loaded THEN Back(w, "duplicate")
             ELSE IF TooDeep(wcur[w].depth) THEN Back(w, "depth")
             ELSE IF parsed.err THEN Back(w, "badurl")
             ELSE IF OutsideWhitelist(parsed.Host) THEN Back(w, "whitelist")
             ELSE wpc' = [wpc EXCEPT ![w] = "robots"] /\ UNCHANGED skipped
          /\ stats' = IF ~r.loaded /\ ~TooDeep(wcur[w].depth) /\ parsed.err
                      THEN IncrementErrors(stats) ELSE stats
          /\ IF ~r.loaded /\ ~TooDeep(wcur[w].depth) /\ ~parsed.err
                /\ ~Lookup(hostMap, parsed.Host)
             THEN /\ hostMap' =
                       (parsed.Host :> [robots |-> NilRobots,
                                        lim |-> [interval |-> DefaultInterval,
                                                 burst |-> LimiterBurst]])
                       @@ hostMap
                  /\ robotsPc' = (parsed.Host :> "get") @@ robotsPc
             ELSE UNCHANGED << hostMap, robotsPc >>
    /\ UNCHANGED << cfgVars, urlQueue, wcur, wobs, wdoc, wlinks, seedIdx, stageVars,
                    mainVars, panicked, published, fetches, emitted >>

\* seen.LoadOrStore, the depth test, url.Parse, the whitelist test and, under
\* hpMu, the lookup or creation of the host's policies (a new record starts
\* the host's fetchRobotsTxt task)
Claim(w) ==
    /\ Running
    /\ wpc[w] = "claim"
    /\ LET u == wcur[w].URL
           r == LoadOrStore(seen, u)
           parsed == Parsed[u]
           pass == ~r.loaded /\ ~TooDeep(wcur[w].depth) /\ ~parsed.err
                   /\ ~OutsideWhitelist(parsed.Host)
       IN /\ seen' = r.set
          /\ claims' = [attempts |-> Bump(claims.attempts, u),
                        wins |-> IF r.loaded THEN claims.wins ELSE Bump(claims.wins, u)]
          /\ IF r.loaded THEN Back(w, "duplicate")
             ELSE IF TooDeep(wcur[w].depth) THEN Back(w, "depth")
             ELSE IF parsed.err THEN Back(w, "badurl")
             ELSE IF OutsideWhitelist(parsed.Host) THEN Back(w, "whitelist")
             ELSE wpc' = [wpc EXCEPT ![w] = "robots"] /\ UNCHANGED skipped
          /\ stats' = IF ~r.loaded /\ ~TooDeep(wcur[w].depth) /\ parsed.err
                      THEN IncrementErrors(stats) ELSE stats
          /\ IF pass /\ ~Lookup(hostMap, parsed.Host)
             THEN /\ hostMap' =
                       (parsed.Host :> [robots |-> NilRobots,
                                        lim |-> [interval |-> DefaultInterval,
                                                 burst |-> LimiterBurst]])
                       @@ hostMap
                  /\ robotsPc' = (parsed.Host :> "get") @@ robotsPc
             ELSE UNCHANGED << hostMap, robotsPc >>
    /\ UNCHANGED << cfgVars, urlQueue, wcur, wobs, wdoc, wlinks, seedIdx, stageVars,
                    mainVars, panicked, published, fetches, emitted >>

\* if hp.robots != nil && !hp.robots.TestAgent(...) { log; continue }
RobotsCheck(w) ==
    /\ Running
    /\ wpc[w] = "robots"
    /\ LET parsed == Parsed[wcur[w].URL]
       IN \E obs \in RacyRead(hostMap[parsed.Host].robots) :
            /\ wobs' = [wobs EXCEPT ![w] = obs]
            /\ IF Disallowed(obs, parsed.Path)
               THEN Back(w, "robots")
               ELSE wpc' = [wpc EXCEPT ![w] = "wait"] /\ UNCHANGED skipped
    /\ UNCHANGED << cfgVars, urlQueue, seen, hostMap, robotsPc, wcur, wdoc, wlinks,
                    seedIdx, stageVars, mainVars, panicked, stats,
                    published, fetches, claims, emitted >>

\* faulty variant: Wait never reports the cancellation
WaitErrNever(done) == FALSE

\* err != nil of hp.lim.Wait(ctx)
WaitErr(done) == done

\* hp.lim.Wait(ctx): an error when ctx is already cancelled; otherwise the
\* call sleeps until the limiter grants its token and returns nil
LimWait(w) ==
    /\ Running
    /\ wpc[w] = "wait"
    /\ IF WaitErr(ctxDone)
       THEN Back(w, "cancelled")
       ELSE wpc' = [wpc EXCEPT ![w] = "fetch"] /\ UNCHANGED skipped
    /\ UNCHANGED << cfgVars, urlQueue, seen, hostMap, robotsPc, wcur, wobs, wdoc,
                    wlinks, seedIdx, stageVars, mainVars, panicked,
                    stats, published, fetches, claims, emitted >>

\* enhancedFetchAndParse and, on success, the page and byte counters
Fetch(w) ==
    /\ Running
    /\ wpc[w] = "fetch"
    /\ LET u == wcur[w].URL
           n == Cardinality({f \in fetches : f.URL = u})
       IN IF ctxDone
          THEN \* client.Do returns the context's error before a request is sent
               /\ stats' = IncrementErrors(stats)
               /\ Back(w, "fetcherror")
               /\ UNCHANGED << fetches, wdoc, wlinks >>
          ELSE /\ fetches' = fetches \cup {[URL |-> u, host |-> Parsed[u].Host,
                                            path |-> Parsed[u].Path,
                                            depth |-> wcur[w].depth,
                                            robotsSeen |-> wobs[w].set, n |-> n + 1]}
               /\ \E failed \in (IF u \in Flaky THEN BOOLEAN ELSE {FALSE}) :
                    IF failed
                    THEN /\ stats' = IncrementErrors(stats)
                         /\ Back(w, "fetcherror")
                         /\ UNCHANGED << wdoc, wlinks >>
                    ELSE LET r == Fetched[u, wcur[w].depth]
                         IN /\ wdoc' = [wdoc EXCEPT ![w] = r.doc]
                            /\ wlinks' = [wlinks EXCEPT ![w] = r.links]
                            /\ stats' = [IncrementPages(stats) EXCEPT
                                           !.BytesProcessed = @ + Len(r.doc.Text)]
                            /\ wpc' = [wpc EXCEPT ![w] = "send"]
                            /\ UNCHANGED skipped
    /\ UNCHANGED << cfgVars, urlQueue, seen, hostMap, robotsPc, wcur, wobs, seedIdx,
                    stageVars, mainVars, panicked, published, claims,
                    emitted >>

\* out <- doc, received by the dream processor's select (or by the
\* pass-through stage's range) on the unbuffered rawOut
SendDoc(w) ==
    /\ Running
    /\ wpc[w] = "send"
    /\ dpPc = "select"
    /\ closed.rawOut = 0
    /\ dpDoc' = wdoc[w]
    /\ dpPc' = "send"
    /\ emitted' = emitted \cup {wdoc[w]}
    /\ wdoc' = [wdoc EXCEPT ![w] = ZeroDoc]
    /\ wpc' = [wpc EXCEPT ![w] = IF wlinks[w] = <<>> THEN "select" ELSE "links"]
    /\ UNCHANGED << cfgVars, urlQueue, seen, hostMap, robotsPc, wcur, wobs, wlinks,
                    seedIdx, prodPc, prodDoc, mainVars, panicked, stats,
                    published, fetches, claims, skipped >>

\* faulty variant: the send ignores the capacity
OfferUnbounded(q, e) == Append(q, e)

\* select { case urlQueue <- e: default: }: the queue after a non-blocking send
Offer(q, e) == IF Len(q) < QueueSize THEN Append(q, e) ELSE q

\* one iteration of the loop over newLinks
EnqueueLink(w) ==
    /\ Running
    /\ wpc[w] = "links"
    /\ wlinks[w] # <<>>
    /\ LET link == Head(wlinks[w])
           e == [URL |-> link.URL, depth |-> wcur[w].depth + 1,
                 parent |-> wcur[w].URL, priority |-> link.Priority]
       IN IF link.Priority > 0
          THEN /\ urlQueue' = Offer(urlQueue, e)
               /\ skipped' = IF Len(urlQueue) < QueueSize THEN skipped
                             ELSE skipped \cup
                                  {[URL |-> e.URL, depth |-> e.depth,
                                    reason |-> IF link.Priority >= DropLogPriority
                                               THEN "queuefull-logged"
                                               ELSE "queuefull"]}
          ELSE UNCHANGED << urlQueue, skipped >>
    /\ wlinks' = [wlinks EXCEPT ![w] = Tail(@)]
    /\ wpc' = [wpc EXCEPT ![w] = IF Tail(wlinks[w]) = <<>> THEN "select" ELSE "links"]
    /\ UNCHANGED << cfgVars, seen, hostMap, robotsPc, wcur, wobs, wdoc, seedIdx,
                    stageVars, mainVars, panicked, stats, published,
                    fetches, claims, emitted >>

(***************************************************************************)
(* fetchRobotsTxt, seeder                                                  *)
(***************************************************************************)
\* faulty variant: every answer is taken as a robots.txt
RobotsFailedNever(rt) == FALSE

\* err != nil || resp.StatusCode != http.StatusOK (a transport error and an
\* unparseable body are answers with a status other than 200 here)
RobotsFailed(rt) == rt.status # 200

\* GET robots.txt; on 200 attach the parsed data and apply the Crawl-Delay
FetchRobots(h) ==
    /\ Running
    /\ h \in DOMAIN robotsPc
    /\ robotsPc[h] = "get"
    /\ LET rt == RobotsTxt(h)
       IN IF RobotsFailed(rt)
          THEN UNCHANGED hostMap
          ELSE hostMap' = [hostMap EXCEPT
                 ![h].robots = [set |-> TRUE, disallow |-> rt.disallow,
                                crawlDelay |-> rt.crawlDelay],
                 ![h].lim.interval = IF rt.crawlDelay > 0
                                     THEN rt.crawlDelay * 1000 ELSE @]
    /\ robotsPc' = [robotsPc EXCEPT ![h] = "done"]
    /\ UNCHANGED << cfgVars, urlQueue, seen, workerVars, seedIdx, stageVars, mainVars, panicked, stats, published, histVars >>

\* faulty variant: a seed that finds the frontier full is dropped
SeedDropWhenFull ==
    /\ Running
    /\ seedIdx <= Len(seeds)
    /\ urlQueue' = Offer(urlQueue, [URL |-> seeds[seedIdx], depth |-> 0,
                                    parent |-> "", priority |-> SeedPriority])
    /\ seedIdx' = seedIdx + 1
    /\ UNCHANGED << cfgVars, seen, hostMap, robotsPc, workerVars, stageVars, mainVars, panicked, stats, published, histVars >>

\* urlQueue <- URLWithMetadata{URL: s, depth: 0, priority: 10}: a blocking send
Seed ==
    /\ Running
    /\ seedIdx <= Len(seeds)
    /\ Len(urlQueue) < QueueSize
    /\ urlQueue' = Append(urlQueue, [URL |-> seeds[seedIdx], depth |-> 0,
                                     parent |-> "", priority |-> SeedPriority])
    /\ seedIdx' = seedIdx + 1
    /\ UNCHANGED << cfgVars, seen, hostMap, robotsPc, workerVars, stageVars, mainVars, panicked, stats, published, histVars >>

(***************************************************************************)
(* dreamProcessor / pass-through stage, enhancedProducer                   *)
(***************************************************************************)
\* dreamProcessor: case <-ctx.Done(): return
DreamExit ==
    /\ Running
    /\ enableDreaming
    /\ dpPc = "select"
    /\ ctxDone
    /\ dpPc' = "done"
    /\ UNCHANGED << cfgVars, urlQueue, seen, hostMap, robotsPc, workerVars, seedIdx,
                    dpDoc, prodPc, prodDoc, mainVars, panicked, stats,
                    published, histVars >>

\* a receive from the closed rawOut: the dream processor gets the zero
\* Document, the pass-through stage's range loop ends (the model follows the
\* dream processor until MaxZeroDocs zero Documents have been published)
DreamRecvClosed ==
    /\ Running
    /\ dpPc = "select"
    /\ closed.rawOut > 0
    /\ Cardinality({i \in DOMAIN published : published[i].key = ""}) < MaxZeroDocs
    /\ dpPc' = IF enableDreaming THEN "send" ELSE "done"
    /\ dpDoc' = ZeroDoc
    /\ UNCHANGED << cfgVars, urlQueue, seen, hostMap, robotsPc, workerVars, seedIdx,
                    prodPc, prodDoc, mainVars, panicked, stats,
                    published, histVars >>

\* output <- doc (dreamOut <- doc), received by enhancedProducer's range
DreamSend ==
    /\ Running
    /\ dpPc = "send"
    /\ prodPc = "range"
    /\ closed.dreamOut = 0
    /\ prodDoc' = dpDoc
    /\ prodPc' = "raw"
    /\ dpDoc' = ZeroDoc
    /\ dpPc' = "select"
    /\ UNCHANGED << cfgVars, urlQueue, seen, hostMap, robotsPc, workerVars, seedIdx, mainVars, panicked, stats, published, histVars >>

\* a send on the closed dreamOut panics
SendOnClosed ==
    /\ Running
    /\ dpPc = "send"
    /\ closed.dreamOut > 0
    /\ panicked' = TRUE
    /\ UNCHANGED << cfgVars, urlQueue, seen, hostMap, robotsPc, workerVars, seedIdx,
                    stageVars, mainVars, stats, published, histVars >>

Message(topic, doc) == [topic |-> topic, key |-> doc.URL, value |-> doc]

\* doc.DreamHints.Surrealism > 0.5
DreamWorthy(doc) == doc.DreamHints.Surrealism > DreamThreshold

\* producer.Produce on the raw content topic
ProduceRaw ==
    /\ Running
    /\ prodPc = "raw"
    /\ published' = Append(published, Message("raw.content", prodDoc))
    /\ prodPc' = IF DreamWorthy(prodDoc) THEN "dream" ELSE "range"
    /\ prodDoc' = IF DreamWorthy(prodDoc) THEN prodDoc ELSE ZeroDoc
    /\ UNCHANGED << cfgVars, urlQueue, seen, hostMap, robotsPc, workerVars, seedIdx,
                    dpPc, dpDoc, mainVars, panicked, stats, histVars >>

\* producer.Produce on the dream topic
ProduceDream ==
    /\ Running
    /\ prodPc = "dream"
    /\ published' = Append(published, Message("dream.seeds", prodDoc))
    /\ prodPc' = "range"
    /\ prodDoc' = ZeroDoc
    /\ UNCHANGED << cfgVars, urlQueue, seen, hostMap, robotsPc, workerVars, seedIdx,
                    dpPc, dpDoc, mainVars, panicked, stats, histVars >>

\* for doc := range input ends once dreamOut is closed
ProducerExit ==
    /\ Running
    /\ prodPc = "range"
    /\ closed.dreamOut > 0
    /\ prodPc' = "done"
    /\ UNCHANGED << cfgVars, urlQueue, seen, hostMap, robotsPc, workerVars, seedIdx,
                    dpPc, dpDoc, prodDoc, mainVars, panicked, stats,
                    published, histVars >>

(***************************************************************************)
(* main: the shutdown sequence                                             *)
(***************************************************************************)
\* <-timer.C; cancel()
TimerFires ==
    /\ Running
    /\ mainPc = "timer"
    /\ ctxDone' = TRUE
    /\ mainPc' = "wait"
    /\ UNCHANGED << cfgVars, urlQueue, seen, hostMap, robotsPc, workerVars, seedIdx,
                    stageVars, closed, flushedLen, panicked, stats,
                    published, histVars >>

\* wg.Wait() returns once every worker has returned
WgWait ==
    /\ Running
    /\ mainPc = "wait"
    /\ \A w \in Workers : wpc[w] = "done"
    /\ mainPc' = "flush"
    /\ UNCHANGED << cfgVars, urlQueue, seen, hostMap, robotsPc, workerVars, seedIdx,
                    stageVars, ctxDone, closed, flushedLen, panicked,
                    stats, published, histVars >>

\* producer.Flush(15 * 1000)
Flush ==
    /\ Running
    /\ mainPc = "flush"
    /\ flushedLen' = Len(published)
    /\ mainPc' = "closeRaw"
    /\ UNCHANGED << cfgVars, urlQueue, seen, hostMap, robotsPc, workerVars, seedIdx,
                    stageVars, ctxDone, closed, panicked, stats,
                    published, histVars >>

\* close(rawOut)
CloseRaw ==
    /\ Running
    /\ mainPc = "closeRaw"
    /\ closed' = [closed EXCEPT !.rawOut = @ + 1]
    /\ mainPc' = "closeDream"
    /\ UNCHANGED << cfgVars, urlQueue, seen, hostMap, robotsPc, workerVars, seedIdx,
                    stageVars, ctxDone, flushedLen, panicked, stats,
                    published, histVars >>

\* close(dreamOut)
CloseDream ==
    /\ Running
    /\ mainPc = "closeDream"
    /\ closed' = [closed EXCEPT !.dreamOut = @ + 1]
    /\ mainPc' = "final"
    /\ UNCHANGED << cfgVars, urlQueue, seen, hostMap, robotsPc, workerVars, seedIdx,
                    stageVars, ctxDone, flushedLen, panicked, stats,
                    published, histVars >>

\* the final stats line, then main returns and the process ends
Exit ==
    /\ Running
    /\ mainPc = "final"
    /\ mainPc' = "exited"
    /\ UNCHANGED << cfgVars, urlQueue, seen, hostMap, robotsPc, workerVars, seedIdx,
                    stageVars, ctxDone, closed, flushedLen, panicked,
                    stats, published, histVars >>

(***************************************************************************)
(* Specifications                                                          *)
(***************************************************************************)
Hosts == {"a", "b"}

WorkerStep(w) ==
    \/ WorkerExit(w) \/ Dequeue(w) \/ Claim(w) \/ RobotsCheck(w)
    \/ LimWait(w) \/ Fetch(w) \/ SendDoc(w) \/ EnqueueLink(w)

Next ==
    \/ \E w \in Workers : WorkerExit(w)
    \/ \E w \in Workers : Dequeue(w)
    \/ \E w \in Workers : Claim(w)
    \/ \E w \in Workers : RobotsCheck(w)
    \/ \E w \in Workers : LimWait(w)
    \/ \E w \in Workers : Fetch(w)
    \/ \E w \in Workers : SendDoc(w)
    \/ \E w \in Workers : EnqueueLink(w)
    \/ \E h \in Hosts : FetchRobots(h)
    \/ Seed
    \/ DreamExit
    \/ DreamRecvClosed
    \/ DreamSend
    \/ SendOnClosed
    \/ ProduceRaw
    \/ ProduceDream
    \/ ProducerExit
    \/ TimerFires
    \/ WgWait
    \/ Flush
    \/ CloseRaw
    \/ CloseDream
    \/ Exit

Spec == Init /\ [][Next]_vars

\* fair scheduling of every goroutine; the budget timer fires; every HTTP call
\* and every limiter wait returns
FairSpec ==
    /\ Spec
    /\ \A w \in Workers : WF_vars(WorkerStep(w))
    /\ \A h \in Hosts : WF_vars(FetchRobots(h))
    /\ WF_vars(Seed)
    /\ WF_vars(DreamExit \/ DreamRecvClosed \/ DreamSend \/ SendOnClosed)
    /\ WF_vars(ProduceRaw \/ ProduceDream \/ ProducerExit)
    /\ WF_vars(TimerFires \/ WgWait \/ Flush \/ CloseRaw \/ CloseDream \/ Exit)

\* the scheduling of every task but main: the timer need not fire
SeedFairSpec ==
    /\ Spec
    /\ \A w \in Workers : WF_vars(WorkerStep(w))
    /\ \A h \in Hosts : WF_vars(FetchRobots(h))
    /\ WF_vars(Seed)
    /\ WF_vars(DreamExit \/ DreamRecvClosed \/ DreamSend \/ SendOnClosed)
    /\ WF_vars(ProduceRaw \/ ProduceDream \/ ProducerExit)

(***************************************************************************)
(* Link extraction on its own: extractLinksWithPriority applied anchor by  *)
(* anchor to pages drawn from bounded sets, then the worker's loop that    *)
(* offers the extracted links to the frontier                              *)
(***************************************************************************)
LsBases == {"http://a/d/p", "https://b"}
LsDepths == {0, 1, 2}
LsHrefs == {"", "/", "#top", "/p", "qq", "mailto:x@a", "ftp://a/f", "https://b/x",
            "//b/x", "/p#s", ":bad"}
LsAnchors == {Anchor(h, "next") : h \in LsHrefs}
             \cup {Anchor("/p", "Blog"), Anchor("https://b/x", "Daily News")}
LsPages == UNION {[1..n -> LsAnchors] : n \in 0..MaxAnchors}

LinkInit ==
    /\ rl = IdleRl
    /\ an = IdleAn
    /\ cp = IdleCp
    /\ seeds = <<>>
    /\ enableDreaming = TRUE
    /\ allowedDomains = {}
    /\ SystemInit
    /\ \E b \in LsBases, d \in LsDepths, as \in LsPages :
         ls = [IdleLs EXCEPT !.base = b, !.depth = d, !.anchors = as]

\* the callback of doc.Find("a[href]").Each on the next anchor
LsExtract ==
    /\ ls.idx <= Len(ls.anchors)
    /\ LET new == LinkCallback(urlParse(ls.base), ls.anchors[ls.idx], ls.depth)
       IN ls' = [ls EXCEPT !.idx = @ + 1,
                           !.links = @ \o new,
                           !.src = IF new = <<>> THEN @ ELSE Append(@, ls.idx)]
    /\ UNCHANGED << an, rl, cp, seeds, enableDreaming, allowedDomains, urlQueue, seen, hostMap,
                    robotsPc, workerVars, seedIdx, stageVars, mainVars, panicked,
                    stats, published, histVars >>

\* the worker's loop over newLinks: the next link is offered to the frontier
LsOffer ==
    /\ ls.idx > Len(ls.anchors)
    /\ ls.offered < Len(ls.links)
    /\ LET link == ls.links[ls.offered + 1]
       IN urlQueue' = IF link.Priority > 0
                      THEN Offer(urlQueue, [URL |-> link.URL, depth |-> ls.depth + 1,
                                            parent |-> ls.base,
                                            priority |-> link.Priority])
                      ELSE urlQueue
    /\ ls' = [ls EXCEPT !.offered = @ + 1]
    /\ UNCHANGED << an, rl, cp, seeds, enableDreaming, allowedDomains, seen, hostMap, robotsPc,
                    workerVars, seedIdx, stageVars, mainVars, panicked, stats,
                    published, histVars >>

LinkNext == LsExtract \/ LsOffer

LinkSpec == LinkInit /\ [][LinkNext]_vars

(***************************************************************************)
(* The limiter of one host on its own, with a clock: workers call          *)
(* hp.lim.Wait, fetch and complete while fetchRobotsTxt applies the        *)
(* Crawl-Delay of the host's robots.txt; time advances in ticks of TickMs  *)
(***************************************************************************)
Ticks(ms) == ms \div TickMs

\* Limiter.advance: the tokens at time t
advance(lim, t) ==
    min(LimiterBurst * TokUnit,
        lim.tokens + (t - lim.last) * (TokUnit \div Ticks(lim.interval)))

\* Limiter.reserveN(t, 1): one token is taken, the bucket may go negative, and
\* the caller may act once the missing part has been refilled
reserve(lim, t) ==
    LET tk == advance(lim, t) - TokUnit
        wait == IF tk < 0
                THEN ((-tk) * Ticks(lim.interval) + TokUnit - 1) \div TokUnit
                ELSE 0
    IN [lim |-> [lim EXCEPT !.tokens = tk, !.last = t], timeToAct |-> t + wait]

\* Limiter.SetLimit at time t
SetLimit(lim, t, interval) ==
    [lim EXCEPT !.tokens = advance(lim, t), !.last = t, !.interval = interval]

crawlVars == << seeds, enableDreaming, allowedDomains, urlQueue, seen, hostMap,
                robotsPc, workerVars, seedIdx, stageVars, mainVars, panicked,
                stats, published, histVars >>

RateInit ==
    /\ ls = IdleLs
    /\ seeds = <<>>
    /\ enableDreaming = TRUE
    /\ allowedDomains = {}
    /\ SystemInit
    /\ an = IdleAn
    /\ cp = IdleCp
    /\ rl = [IdleRl EXCEPT
               !.robots = "get",
               !.wk = [w \in Workers |-> [pc |-> "idle", res |-> 0, act |-> 0,
                                          interval |-> 0, n |-> 0]],
               !.left = MaxFetches]

\* hp.lim.Wait(ctx): the reservation is made when the call starts
RlWait(w) ==
    /\ rl.wk[w].pc = "idle"
    /\ rl.left > 0
    /\ LET r == reserve(rl.lim, rl.now)
       IN rl' = [rl EXCEPT
                   !.lim = r.lim,
                   !.left = @ - 1,
                   !.wk[w] = [pc |-> "wait", res |-> rl.now, act |-> r.timeToAct,
                              interval |-> rl.lim.interval,
                              n |-> MaxFetches - rl.left + 1]]
    /\ UNCHANGED << crawlVars, ls, an, cp >>

\* Wait returns at or after the reserved time and the request is sent
RlFetch(w) ==
    /\ rl.wk[w].pc = "wait"
    /\ rl.now >= rl.wk[w].act
    /\ rl' = [rl EXCEPT
                !.wk[w].pc = "fetch",
                !.grants = @ \cup {[w |-> w, n |-> rl.wk[w].n, res |-> rl.wk[w].res,
                                    at |-> rl.wk[w].act,
                                    interval |-> rl.wk[w].interval]}]
    /\ UNCHANGED << crawlVars, ls, an, cp >>

\* the response arrives, after a time of its own
RlComplete(w) ==
    /\ rl.wk[w].pc = "fetch"
    /\ rl' = [rl EXCEPT
                !.wk[w].pc = "idle",
                !.completed = @ \cup {[n |-> rl.wk[w].n, at |-> rl.now]}]
    /\ UNCHANGED << crawlVars, ls, an, cp >>

\* fetchRobotsTxt: hp.lim.SetLimit(rate.Every(delay)) when Crawl-Delay > 0
RlSetLimit ==
    /\ rl.robots = "get"
    /\ LET rt == RobotsTxt("a")
       IN rl' = [rl EXCEPT
                   !.robots = "done",
                   !.lim = IF rt.status = 200 /\ rt.crawlDelay > 0
                           THEN SetLimit(@, rl.now, rt.crawlDelay * 1000)
                           ELSE @]
    /\ UNCHANGED << crawlVars, ls, an, cp >>

RlTick ==
    /\ rl.now < MaxTicks
    /\ rl' = [rl EXCEPT !.now = @ + 1]
    /\ UNCHANGED << crawlVars, ls, an, cp >>

RateNext ==
    \/ \E w \in Workers : RlWait(w)
    \/ \E w \in Workers : RlFetch(w)
    \/ \E w \in Workers : RlComplete(w)
    \/ RlSetLimit
    \/ RlTick

RateSpec == RateInit /\ [][RateNext]_vars

(***************************************************************************)
(* The parse/annotate pass on its own: one fetched page is parsed twice    *)
(***************************************************************************)
\* the body of the page of TestExtractText
TestPage ==
    << Node("#text", "\n\t\t\t"), Inside("header", Node("h1", "Main Title")),
       Node("#text", "\n\t\t\t"),
       Inside("nav", [Node("a", "Nav Link") EXCEPT !.href = "/nav"]),
       Node("#text", "\n\t\t\t"), Node("p", "This is the first paragraph."),
       Node("#text", "\n\t\t\t"), Node("div", "Here is a div with more text."),
       Node("#text", "\n\t\t\t"), Node("script", "alert(\"hello\");"),
       Node("#text", "\n\t\t\t"), Inside("footer", Node("p", "Copyright info")),
       Node("#text", "\n\t\t\n\t") >>

AnPages ==
    { TestPage,
      << Node("h2", "Digital crystal visions"), Node("#text", " "),
         Node("p", "dream dream magic magic, the art."),
         [Node("a", "more news") EXCEPT !.href = "/p"],
         Node("q", "so it is") >>,
      << Node("nav", "menu"),
         Node("article", " A long article about the visions of a digital crystal. "),
         Node("article", "short"), Node("p", "outside") >> }

AnnotInit ==
    /\ ls = IdleLs
    /\ rl = IdleRl
    /\ seeds = <<>>
    /\ enableDreaming = TRUE
    /\ allowedDomains = {}
    /\ SystemInit
    /\ \E p \in AnPages : an = [IdleAn EXCEPT !.pc = "fetched", !.page = p]
    /\ cp = IdleCp

\* the first pass over the page
AnFirst ==
    /\ an.pc = "fetched"
    /\ \E r \in ParsePass(an.page, "http://a/") : an' = [an EXCEPT !.pc = "once", !.run1 = r]
    /\ UNCHANGED << crawlVars, ls, rl, cp >>

\* a second pass over the same bytes with the same base URL
AnSecond ==
    /\ an.pc = "once"
    /\ \E r \in ParsePass(an.page, "http://a/") : an' = [an EXCEPT !.pc = "twice", !.run2 = r]
    /\ UNCHANGED << crawlVars, ls, rl, cp >>

AnnotNext == AnFirst \/ AnSecond

AnnotSpec == AnnotInit /\ [][AnnotNext]_vars

(***************************************************************************)
(* The content processor on one partition of raw.content: Start reads the  *)
(* messages in offset order and starts one processMessage task for each;   *)
(* a task decodes, cleans, hands the result to the producer and commits    *)
(* its message. A read error is logged and changes nothing. The committed  *)
(* offset of a partition is one number: committing message o stores o + 1  *)
(***************************************************************************)
ProcInit ==
    /\ ls = IdleLs
    /\ rl = IdleRl
    /\ an = IdleAn
    /\ seeds = <<>>
    /\ enableDreaming = TRUE
    /\ allowedDomains = {}
    /\ SystemInit
    /\ \E d \in [1..NumMessages -> BOOLEAN] :
         cp = [IdleCp EXCEPT !.decodes = d,
                             !.task = [i \in 1..NumMessages |-> "none"]]

\* msg, err := cp.consumer.ReadMessage(-1); go cp.processMessage(msg)
CpReadMessage ==
    /\ cp.pos < Len(cp.decodes)
    /\ cp' = [cp EXCEPT !.pos = @ + 1, !.task[cp.pos + 1] = "unmarshal"]
    /\ UNCHANGED << crawlVars, ls, rl, an >>

\* json.Unmarshal(msg.Value, &document): on an error the task returns
CpUnmarshal(o) ==
    /\ cp.task[o + 1] = "unmarshal"
    /\ cp' = [cp EXCEPT !.task[o + 1] = IF cp.decodes[o + 1] THEN "produce"
                                        ELSE "returned"]
    /\ UNCHANGED << crawlVars, ls, rl, an >>

\* cleanDocument, json.Marshal and cp.producer.Produce, whose error result
\* (the producer's queue is full) is not looked at
CpProduce(o) ==
    /\ cp.task[o + 1] = "produce"
    /\ \E ok \in BOOLEAN :
         cp' = [cp EXCEPT !.task[o + 1] = "commit",
                          !.produced = IF ok THEN Append(@, o) ELSE @]
    /\ UNCHANGED << crawlVars, ls, rl, an >>

\* cp.consumer.CommitMessage(msg): the group's offset becomes msg's offset + 1
CpCommitMessage(o) ==
    /\ cp.task[o + 1] = "commit"
    /\ cp' = [cp EXCEPT !.task[o + 1] = "done", !.committed = o + 1,
                        !.commits = @ \cup {o}]
    /\ UNCHANGED << crawlVars, ls, rl, an >>

ProcNext ==
    \/ CpReadMessage
    \/ \E o \in 0..(NumMessages - 1) :
         CpUnmarshal(o) \/ CpProduce(o) \/ CpCommitMessage(o)

ProcSpec == ProcInit /\ [][ProcNext]_vars

(***************************************************************************)
(* Properties                                                              *)
(***************************************************************************)
PastClaim == {"robots", "wait", "fetch", "send", "links"}

RawMsgs(doc) == {i \in DOMAIN published :
                   published[i] = Message("raw.content", doc)}
DreamMsgs(doc) == {i \in DOMAIN published :
                     published[i] = Message("dream.seeds", doc)}

\* C1: every URL is fetched at most once; of the LoadOrStore calls made for a
\* URL exactly one stores it, and at most one worker works on a URL past the
\* claim
URLDedupe ==
    /\ \A f \in fetches : f.n = 1
    /\ \A u \in DOMAIN claims.attempts : Count(claims.wins, u) = 1
    /\ \A w1, w2 \in Workers :
         (w1 # w2 /\ wpc[w1] \in PastClaim /\ wpc[w2] \in PastClaim)
            => wcur[w1].URL # wcur[w2].URL

\* a URL was dequeued at least twice, one worker fetched it and another one
\* skipped it as a duplicate
URLDedupeWitness ==
    \E f \in fetches :
       /\ Count(claims.attempts, f.URL) >= 2
       /\ \E s \in skipped : s.URL = f.URL /\ s.reason = "duplicate"

\* C2: once the root context is cancelled every worker eventually returns
WorkersTerminate == ctxDone ~> (\A w \in Workers : wpc[w] = "done")

\* C3: each output channel is closed at most once, nothing panics, and no
\* stage is at a send on a channel that has been closed
ChannelsClosedSafely ==
    /\ closed.rawOut <= 1
    /\ closed.dreamOut <= 1
    /\ ~panicked
    /\ closed.rawOut > 0 => \A w \in Workers : wpc[w] # "send"
    /\ closed.dreamOut > 0 => dpPc # "send"

\* the host's robots.txt, as served, disallows the path
ServedDisallow(host, path) ==
    /\ RobotsTxt(host).status = 200
    /\ \E d \in RobotsTxt(host).disallow : HasPrefix(path, d)

\* C4 as claimed: no URL whose path the host's robots.txt disallows is fetched
RobotsRespect == \A f \in fetches : ~ServedDisallow(f.host, f.path)

\* C4 as amended: a URL whose path the host's robots.txt disallows is not
\* fetched when the worker's allow-check saw the host's robots result; it is
\* fetched only after an allow-check that still saw robots unset
RobotsRespectOnceSeen ==
    /\ \A f \in fetches : f.robotsSeen => ~ServedDisallow(f.host, f.path)
    /\ \A w \in Workers :
         (wpc[w] \in {"wait", "fetch"} /\ wobs[w].set)
            => ~ServedDisallow(urlParse(wcur[w].URL).Host, urlParse(wcur[w].URL).Path)

\* an allow-check saw the robots result and the disallowed URL was skipped
RobotsRespectWitness ==
    \E s \in skipped :
       /\ s.reason = "robots"
       /\ ServedDisallow(urlParse(s.URL).Host, urlParse(s.URL).Path)

\* an entry of the frontier: a seed at depth 0 with the seed priority, or a
\* link one level below a fetched parent; never deeper than MaxDepth + 1
EntryOK(e) ==
    /\ e.depth <= MaxDepth + 1
    /\ e.depth = 0 =>
         /\ e.priority = SeedPriority
         /\ \E i \in 1..Len(seeds) : seeds[i] = e.URL
    /\ e.depth > 0 =>
         \E f \in fetches : f.URL = e.parent /\ f.depth = e.depth - 1

\* C5: seeds have depth 0, a child is one level below its parent, nothing is
\* fetched at a depth above MaxDepth, and a URL given up for its depth was
\* enqueued at depth MaxDepth + 1 and discarded by the worker that dequeued it
DepthBound ==
    /\ \A f \in fetches : f.depth <= MaxDepth
    /\ \A i \in 1..Len(urlQueue) : EntryOK(urlQueue[i])
    /\ \A w \in Workers : wpc[w] \in PastClaim \cup {"claim"} => EntryOK(wcur[w])
    /\ \A w \in Workers : wpc[w] \in PastClaim => wcur[w].depth <= MaxDepth
    /\ \A s \in skipped : s.reason = "depth" => s.depth = MaxDepth + 1 /\ s.URL \in seen

\* a link at depth MaxDepth + 1 went through the frontier and was discarded
DepthBoundWitness ==
    /\ \E s \in skipped : s.reason = "depth"
    /\ \E f \in fetches : f.depth = MaxDepth

\* C6: with a whitelist no URL of a host outside it is fetched or gets past
\* the whitelist test; without one no URL is given up for its host
WhitelistRespected ==
    /\ allowedDomains # {} =>
         /\ \A f \in fetches : f.host \in allowedDomains
         /\ \A w \in Workers :
              wpc[w] \in PastClaim => urlParse(wcur[w].URL).Host \in allowedDomains
    /\ allowedDomains = {} => \A s \in skipped : s.reason # "whitelist"

\* under a whitelist a seed and an extracted link of another host were given
\* up and a whitelisted URL was fetched
WhitelistWitness ==
    /\ allowedDomains # {}
    /\ \E s \in skipped : s.reason = "whitelist" /\ s.depth = 0
    /\ \E s \in skipped : s.reason = "whitelist" /\ s.depth > 0
    /\ fetches # {}

\* C7: every dream.seeds message carries a Document with Surrealism > 0.5 and
\* follows a raw.content message with the same key and value; when the
\* process has ended every Document with Surrealism > 0.5 that a worker handed
\* over is on both topics
SurrealismGate ==
    /\ \A i \in DOMAIN published :
         published[i].topic = "dream.seeds" =>
            /\ published[i].value.DreamHints.Surrealism > DreamThreshold
            /\ published[i].key = published[i].value.URL
            /\ \E j \in 1..(i - 1) :
                 published[j] = Message("raw.content", published[i].value)
    /\ ~Running =>
         \A d \in emitted :
            d.DreamHints.Surrealism > DreamThreshold
               => RawMsgs(d) # {} /\ DreamMsgs(d) # {}

\* C8: with --enable-dreaming=false nothing is published on dream.seeds
DreamingFlagGates ==
    ~enableDreaming => \A i \in DOMAIN published : published[i].topic # "dream.seeds"

\* C9: when main returns, every Document a worker handed to the output
\* channel has been published on raw.content, and the flush came after it
NoDocumentLost ==
    mainPc = "exited" =>
       \A d \in emitted : \E i \in RawMsgs(d) : i <= flushedLen

\* C11: the frontier never holds more than QueueSize entries and a worker at
\* its link loop can always take its step; when the frontier is full the
\* step leaves the frontier as it is, moves the worker on and records the drop
\* as logged exactly when the link's priority is at least DropLogPriority
BackPressure ==
    /\ [](/\ Len(urlQueue) <= QueueSize
          /\ \A w \in Workers :
               (Running /\ wpc[w] = "links") => ENABLED EnqueueLink(w))
    /\ [][\A w \in Workers :
            (/\ wpc[w] = "links"
             /\ wlinks'[w] # wlinks[w]
             /\ Head(wlinks[w]).Priority > 0
             /\ Len(urlQueue) = QueueSize)
            => LET link == Head(wlinks[w])
                   reason == IF link.Priority >= DropLogPriority THEN "queuefull-logged"
                             ELSE "queuefull"
               IN /\ urlQueue' = urlQueue
                  /\ wpc'[w] \in {"links", "select"}
                  /\ wlinks'[w] = Tail(wlinks[w])
                  /\ [URL |-> link.URL, depth |-> wcur[w].depth + 1,
                      reason |-> reason] \in skipped'
                  /\ \A s \in skipped' \ skipped : s.reason = reason]_vars

\* with the frontier at capacity a link of priority DropLogPriority or more
\* was dropped with a log line
BackPressureWitness ==
    /\ Len(urlQueue) = QueueSize
    /\ \E s \in skipped : s.reason = "queuefull-logged"

\* the Document of a response whose status is not 200
EmptyDoc(u, status) == [ZeroDoc EXCEPT !.URL = u, !.Status = status]

\* C14: a response with a non-2xx status is not an error: the worker counts a
\* page and no error, takes no link from it and hands a Document with the
\* status and empty title, text and dream hints to the output channel, from
\* where it goes on without enqueuing anything; such a Document is never
\* published on dream.seeds
NonOKNotAnError ==
    /\ [](/\ \A d \in emitted : d.Status # 200 => d = EmptyDoc(d.URL, d.Status)
          /\ \A i \in DOMAIN published :
               published[i].topic = "dream.seeds" => published[i].value.Status = 200)
    /\ [][\A w \in Workers :
            LET u == wcur[w].URL
            IN /\ (/\ wpc[w] = "fetch"
                   /\ wpc'[w] # "fetch"
                   /\ fetches' # fetches
                   /\ u \notin Flaky
                   /\ Page(u).status # 200)
                  => /\ wpc'[w] = "send"
                     /\ wdoc'[w] = EmptyDoc(u, Page(u).status)
                     /\ wlinks'[w] = << >>
                     /\ stats'.PagesProcessed = stats.PagesProcessed + 1
                     /\ stats'.Errors = stats.Errors
                     /\ urlQueue' = urlQueue
               /\ (/\ wpc[w] = "send"
                   /\ wpc'[w] # "send"
                   /\ wdoc[w].Status # 200)
                  => /\ wdoc[w] \in emitted'
                     /\ wpc'[w] = "select"
                     /\ urlQueue' = urlQueue
                     /\ stats' = stats]_vars

\* a 404 page was fetched, counted as a page and not as an error, and its
\* Document went out on raw.content
NonOKWitness ==
    /\ \E d \in emitted : d.Status = 404 /\ RawMsgs(d) # {}
    /\ stats.PagesProcessed >= 1
    /\ stats.Errors = 0

\* C15: a fetch that fails counts exactly one error and no page, yields no
\* Document and no link, puts nothing on the frontier and leaves the URL
\* claimed, and the worker is back at its select, where it can take the next
\* URL; the URL is not fetched a second time and no Document of it goes out
FailedFetchDropped ==
    /\ [](/\ \A s \in skipped :
               s.reason = "fetcherror"
               => /\ Cardinality({f \in fetches : f.URL = s.URL}) <= 1
                  /\ s.URL \in seen
                  /\ \A d \in emitted : d.URL # s.URL
                  /\ \A i \in DOMAIN urlQueue : urlQueue[i].parent # s.URL
          /\ \A w \in Workers :
               (Running /\ wpc[w] = "select" /\ urlQueue # << >>)
               => ENABLED Dequeue(w))
    /\ [][\A w \in Workers :
            (wpc[w] = "fetch" /\ wpc'[w] \notin {"fetch", "send"})
            => /\ stats' = [stats EXCEPT !.Errors = @ + 1]
               /\ [URL |-> wcur[w].URL, depth |-> wcur[w].depth,
                   reason |-> "fetcherror"] \in skipped'
               /\ wpc'[w] = "select"
               /\ urlQueue' = urlQueue
               /\ seen' = seen
               /\ emitted' = emitted
               /\ wdoc'[w] = ZeroDoc
               /\ wlinks'[w] = << >>]_vars

\* the request for a URL was sent and failed, one error was counted for it,
\* and the workers went on to other URLs
FailedFetchWitness ==
    \E s \in skipped :
       /\ s.reason = "fetcherror"
       /\ \E f \in fetches : f.URL = s.URL
       /\ \E t \in skipped : t.URL # s.URL
       /\ stats.Errors >= 1
       /\ ~ctxDone

\* the skips that are no errors
NoErrorReasons == {"duplicate", "depth", "whitelist", "robots", "cancelled",
                   "queuefull", "queuefull-logged"}

\* C16: the error counter changes only by one, and only in the step of a
\* worker whose URL does not parse or whose fetch fails; a step that skips a
\* URL as duplicate, too deep, outside the whitelist, disallowed by robots or
\* because the wait was cancelled, or that drops a link on a full frontier,
\* leaves it as it is
ErrorCounterFrame ==
    [][/\ stats'.Errors # stats.Errors
          => /\ stats'.Errors = stats.Errors + 1
             /\ \E w \in Workers :
                  /\ wpc'[w] = "select"
                  /\ \/ /\ wpc[w] = "claim"
                        /\ Parsed[wcur[w].URL].err
                        /\ [URL |-> wcur[w].URL, depth |-> wcur[w].depth,
                            reason |-> "badurl"] \in skipped'
                     \/ /\ wpc[w] = "fetch"
                        /\ [URL |-> wcur[w].URL, depth |-> wcur[w].depth,
                            reason |-> "fetcherror"] \in skipped'
       /\ (\E s \in skipped' \ skipped : s.reason \in NoErrorReasons)
          => stats'.Errors = stats.Errors]_vars

\* one URL failed to parse and was counted, while one URL was skipped as
\* outside the whitelist and one as disallowed without a count
ErrorCounterWitness ==
    /\ stats.Errors = 1
    /\ \E s \in skipped : s.reason = "badurl"
    /\ \E s \in skipped : s.reason = "whitelist"
    /\ \E s \in skipped : s.reason = "robots"

\* C17: no task is left blocked for ever: once main is past wg.Wait, so that
\* every worker has returned and nothing receives from the frontier any more,
\* the seeder has finished or the seeds it still has to send fit into the
\* frontier
NoTaskLeak ==
    mainPc \in {"flush", "closeRaw", "closeDream", "final", "exited"}
    => /\ \A w \in Workers : wpc[w] = "done"
       /\ Len(seeds) - seedIdx + 1 <= QueueSize - Len(urlQueue)

\* C19: the seeder enqueues the seeds one by one, each with depth 0 and
\* priority SeedPriority, and passes to the next seed only when the seed is
\* on the frontier; unless cancellation fires, every seed is eventually
\* enqueued, also when there are more seeds than the frontier holds
SeedsEnqueued ==
    /\ [][seedIdx' # seedIdx
          => /\ seedIdx' = seedIdx + 1
             /\ Len(urlQueue) < QueueSize
             /\ urlQueue' = Append(urlQueue, [URL |-> seeds[seedIdx], depth |-> 0,
                                              parent |-> "", priority |-> 10])]_vars
    /\ <>(ctxDone \/ seedIdx > Len(seeds))

\* the last of more seeds than the frontier holds was enqueued before any
\* cancellation, into a frontier that a worker had made room in
SeedsEnqueuedWitness ==
    /\ Len(seeds) > QueueSize
    /\ seedIdx > Len(seeds)
    /\ ~ctxDone
    /\ \E i \in DOMAIN urlQueue :
         urlQueue[i] = [URL |-> seeds[Len(seeds)], depth |-> 0, parent |-> "",
                        priority |-> 10]

\* C21: the dreams counter equals the number of Documents published on
\* dream.seeds so far, which is also what the final summary line reports
DreamsCounted ==
    stats.DreamsGenerated
       = Cardinality({i \in DOMAIN published : published[i].topic = "dream.seeds"})

\* C22: main shuts down in this order: cancellation, all workers returned,
\* output channels closed, producer flushed, final stats; so whenever the
\* flush has been done both output channels are closed
ShutdownOrder ==
    /\ mainPc # "timer" => ctxDone
    /\ mainPc \in {"flush", "closeRaw", "closeDream", "final", "exited"}
       => \A w \in Workers : wpc[w] = "done"
    /\ mainPc \in {"closeRaw", "closeDream", "final", "exited"}
       => closed.rawOut >= 1 /\ closed.dreamOut >= 1

\* C23: once the root context is cancelled no fetch is started, a worker
\* whose rate-limit wait ends then skips its URL, and every Document comes
\* from a fetch; so a URL dequeued after the cancellation is not fetched and
\* yields no Document
NoFetchAfterCancel ==
    /\ [](\A d \in emitted : \E f \in fetches : f.URL = d.URL)
    /\ [][ctxDone
          => /\ fetches' = fetches
             /\ \A w \in Workers :
                  (wpc[w] \in {"wait", "fetch"} /\ wpc'[w] # wpc[w])
                  => /\ wpc'[w] = "select"
                     /\ wdoc'[w] = ZeroDoc
                     /\ \E s \in skipped' :
                          /\ s.URL = wcur[w].URL
                          /\ s.reason
                               = IF wpc[w] = "wait" THEN "cancelled" ELSE "fetcherror"]_vars

\* after the cancellation a worker took a URL from the frontier up to its
\* rate-limit wait and skipped it there, without a fetch and without a Document
NoFetchAfterCancelWitness ==
    /\ ctxDone
    /\ \E s \in skipped :
         /\ s.reason = "cancelled"
         /\ \A f \in fetches : f.URL # s.URL
         /\ \A d \in emitted : d.URL # s.URL

\* C24: a host's policy record is created once and its robots task started
\* once, however many workers come to the host; the record, with its one
\* limiter, stays in the map; and the robots result of a record changes only
\* from unset to set
HostPolicyOnce ==
    /\ [](DOMAIN hostMap = DOMAIN robotsPc)
    /\ [][\A h \in DOMAIN hostMap :
            /\ h \in DOMAIN hostMap'
            /\ robotsPc'[h] # robotsPc[h] => robotsPc[h] = "get" /\ robotsPc'[h] = "done"
            /\ hostMap'[h].robots # hostMap[h].robots
               => /\ hostMap[h].robots = NilRobots
                  /\ hostMap'[h].robots.set
                  /\ robotsPc[h] = "get"
            /\ hostMap'[h].lim.burst = hostMap[h].lim.burst
            /\ hostMap'[h].lim.interval # hostMap[h].lim.interval
               => robotsPc[h] = "get" /\ robotsPc'[h] = "done"]_vars

\* two URLs of one host were fetched, by workers that met in the host's entry,
\* and the host's one robots task has attached its result
HostPolicyWitness ==
    \E f1, f2 \in fetches :
       /\ f1.URL # f2.URL
       /\ f1.host = f2.host
       /\ robotsPc[f1.host] = "done"
       /\ hostMap[f1.host].robots.set

\* C25: an allow-check made once the host's robots result is attached
\* rejects a path that is disallowed to the crawler's agent, and the URL is
\* skipped as disallowed; an allow-check made while the result is unset lets
\* the URL pass
AllowCheckAfterWarmup ==
    [][\A w \in Workers :
         (wpc[w] = "robots" /\ wpc'[w] # "robots")
         => LET parsed == Parsed[wcur[w].URL]
                robots == hostMap[parsed.Host].robots
            IN /\ (robots.set /\ ~TestAgent(robots, parsed.Path))
                  => /\ wpc'[w] = "select"
                     /\ [URL |-> wcur[w].URL, depth |-> wcur[w].depth,
                         reason |-> "robots"] \in skipped'
               /\ ~robots.set => wpc'[w] = "wait"]_vars

\* C27: no worker is at its read of hp.robots while the robots task of that
\* host has its write of hp.robots still to make, since no lock and no atomic
\* operation orders the two
RobotsPointerRaceFree ==
    \A w \in Workers :
       wpc[w] = "robots" => robotsPc[Parsed[wcur[w].URL].Host] # "get"

\* C26: when the robots fetch of a host fails, the host's robots result
\* stays unset and its limiter keeps the default interval, the robots task
\* ends without touching the counters, and every allow-check of the host
\* lets the URL pass
RobotsFailureSilent ==
    /\ [](\A h \in DOMAIN hostMap :
            RobotsTxt(h).status # 200
            => /\ hostMap[h].robots = NilRobots
               /\ hostMap[h].lim = [interval |-> DefaultInterval, burst |-> LimiterBurst])
    /\ [][/\ \A h \in DOMAIN robotsPc :
               (RobotsTxt(h).status # 200 /\ robotsPc'[h] # robotsPc[h])
               => /\ robotsPc'[h] = "done"
                  /\ stats' = stats
                  /\ hostMap' = hostMap
          /\ \A w \in Workers :
               (/\ wpc[w] = "robots"
                /\ wpc'[w] # "robots"
                /\ RobotsTxt(Parsed[wcur[w].URL].Host).status # 200)
               => wpc'[w] = "wait" /\ stats' = stats]_vars

\* the robots fetch of host b has failed and a URL of host b was fetched
\* under the default policy, with no error counted
RobotsFailureWitness ==
    /\ "b" \in DOMAIN robotsPc
    /\ robotsPc["b"] = "done"
    /\ RobotsTxt("b").status # 200
    /\ \E f \in fetches : f.host = "b" /\ ~f.robotsSeen
    /\ stats.Errors = 0

\* C31: the Document a worker emits for a page carries in its Links field
\* the ordered links extracted from that page, the ones the worker then
\* offers to the frontier
EmittedDocCarriesLinks ==
    \A w \in Workers : wpc[w] = "send" => wdoc[w].Links = wlinks[w]

\* C33: for every Document complexity, surrealism and abstractness lie in
\* [0,1]; complexity is min(1, words/1000 + chunks/10 + media/5) and
\* surrealism is min(1, 0.3 if more than one emotion + 0.4 if mystical is an
\* emotion + 0.3 if creative is a theme + 0.05 per motif + 0.2 x complexity)
ScoreBounds ==
    \A d \in emitted :
       LET h == d.DreamHints
           pg == Page(d.URL)
           words == IF d.Status = 200 THEN WordCount(pg.text) ELSE 0
           sum == (IF Len(h.Emotions) > 1 THEN 1500 ELSE 0)
                  + (IF "mystical" \in {h.Emotions[i] : i \in DOMAIN h.Emotions}
                     THEN 2000 ELSE 0)
                  + (IF "creative" \in {h.Themes[i] : i \in DOMAIN h.Themes}
                     THEN 1500 ELSE 0)
                  + Len(h.Motifs) * 250
                  + h.Complexity
           cx == words + pg.chunks * 100 + pg.media * 200
       IN /\ h.Complexity \in 0..1000
          /\ h.Surrealism \in 0..5000
          /\ h.Abstractness \in 0..1000
          /\ h.Complexity = (IF cx < 1000 THEN cx ELSE 1000)
          /\ h.Surrealism = (IF sum < 5000 THEN sum ELSE 5000)

\* a Document was emitted whose surrealism is at the cap because the sum
\* exceeds 1 (two emotions, mystical, creative, some complexity), with an
\* abstractness of 0.2 from one abstract word and two emotions
ScoreBoundsWitness ==
    \E d \in emitted :
       /\ d.DreamHints.Surrealism = 5000
       /\ d.DreamHints.Complexity < 1000
       /\ Len(d.DreamHints.Emotions) = 2
       /\ d.DreamHints.Abstractness = 200

\* C34: a worker claims every dequeued non-empty URL in the seen set before
\* it applies the depth, whitelist and robots filters; a URL first dequeued
\* at a depth above max_depth is therefore never fetched in the run, also
\* when it is dequeued again at an admissible depth
ClaimBeforeFilters ==
    /\ \A s \in skipped :
         s.reason \in {"depth", "badurl", "whitelist", "robots"} => s.URL \in seen
    /\ \A w \in Workers : wpc[w] \in PastClaim => wcur[w].URL \in seen
    /\ \A s \in skipped :
         s.reason = "depth" => ~(\E f \in fetches : f.URL = s.URL)

\* a URL was skipped as too deep and later dequeued again at an admissible
\* depth, where it was skipped as a duplicate
ClaimBeforeFiltersWitness ==
    \E s1, s2 \in skipped :
       /\ s1.URL = s2.URL
       /\ s1.reason = "depth"
       /\ s2.reason = "duplicate"
       /\ s2.depth <= MaxDepth

\* C35: pages processed plus errors never exceed the number of URLs in the
\* seen set, every fetched URL is in the seen set, and the page, error and
\* byte counters never decrease
AccountingInvariant ==
    /\ [](/\ stats.PagesProcessed + stats.Errors <= Cardinality(seen)
          /\ \A f \in fetches : f.URL \in seen)
    /\ [][/\ stats'.PagesProcessed >= stats.PagesProcessed
          /\ stats'.Errors >= stats.Errors
          /\ stats'.BytesProcessed >= stats.BytesProcessed]_vars

\* a run with a page, an error and a claimed URL that gave neither
AccountingWitness ==
    /\ stats.PagesProcessed >= 1
    /\ stats.Errors >= 1
    /\ stats.BytesProcessed >= 1
    /\ stats.PagesProcessed + stats.Errors < Cardinality(seen)

NoSpuriousPublication ==
    \A i \in DOMAIN published :
       /\ published[i].value \in emitted
       /\ published[i].key \in seen
       /\ published[i].value.URL # ""

\* the distance of two instants
Apart(t1, t2) == IF t1 >= t2 THEN t1 - t2 ELSE t2 - t1

\* C12: no two fetches of the host complete less than the limiter interval
\* apart, however many workers fetch from it at once
RateCompletionsApart ==
    \A c1, c2 \in rl.completed :
       c1 # c2 => Apart(c1.at, c2.at) >= Ticks(DefaultInterval)

\* C18: with Crawl-Delay d in the host's robots.txt consecutive fetches of the
\* host start at least d apart, so that N fetches take at least (N-1)*d
CrawlDelayRespected ==
    LET d == Ticks(RobotsTxt("a").crawlDelay * 1000)
    IN /\ \A g1, g2 \in rl.grants : g1 # g2 => Apart(g1.at, g2.at) >= d
       /\ rl.grants # {} =>
            SetMax({g.at : g \in rl.grants}) - SetMin({g.at : g \in rl.grants})
               >= (Cardinality(rl.grants) - 1) * d

\* C13: two parse/annotate passes over the same page give equal dream hints
\* and equal chunks, the keyword list of every chunk included, members and
\* order
AnnotationDeterministic ==
    an.pc = "twice" =>
       /\ an.run1.DreamHints = an.run2.DreamHints
       /\ an.run1.Chunks = an.run2.Chunks

\* what TestExtractText expects of a page: script, style, nav and footer
\* dropped, header kept, white space collapsed
TestExpected(body) ==
    LET Dropped == {"script", "style", "nav", "footer"}
        Kept(n) == n.tag \notin Dropped /\ n.in \notin Dropped
    IN TrimSpace(Collapse(TextFrom(SelectSeq(body, Kept), 1)))

\* C20: for a page without a main or article container extractText returns
\* the body text in document order without the contents of script, style, nav
\* and footer, with the content of header, and with every run of white space
\* collapsed to one blank; for the page of the unit test this is the string
\* the test expects
ExtractTextAsTested ==
    (/\ an.pc # "idle"
     /\ an.pc # "fetched"
     /\ \A i \in 1..Len(an.page) : an.page[i].tag \notin MainTags)
    => /\ an.run1.Text = TestExpected(an.page)
       /\ an.page = TestPage =>
            an.run1.Text
              = "Main Title This is the first paragraph. Here is a div with more text."

\* C28: the priority of an extracted link is 3 when its host is the page's
\* host and 1 otherwise, plus 2 when its lowercased anchor text contains
\* article, news or blog, and, when the page itself is at depth 2 or more, one
\* less but not below 1; its kind is internal exactly when the hosts are equal
LinkPriorityRule ==
    \A i \in 1..Len(ls.links) :
       LET link == ls.links[i]
           text == ToLower(ls.anchors[ls.src[i]].text)
           same == urlParse(link.URL).Host = urlParse(ls.base).Host
           keyword == \E k \in {"article", "news", "blog"} : Contains(text, k)
           p == (IF same THEN 3 ELSE 1) + (IF keyword THEN 2 ELSE 0)
       IN /\ link.Priority = IF ls.depth >= 2 THEN (IF p - 1 < 1 THEN 1 ELSE p - 1)
                                               ELSE p
          /\ (link.Type = "internal") = same
          /\ link.Type \in {"internal", "external"}

\* on a page at depth 2 an external link without keyword stays at the floor
\* of 1 beside an internal link with a keyword that went from 5 to 4
LinkPriorityWitness ==
    /\ ls.depth = 2
    /\ \E i, j \in 1..Len(ls.links) :
         /\ ls.links[i].Type = "external" /\ ls.links[i].Priority = 1
         /\ ls.links[j].Type = "internal" /\ ls.links[j].Priority = 4

\* C29: an anchor that has been processed has yielded a link exactly when
\* its href is not empty, does not start with #, resolves against the base URL
\* and resolves to scheme http or https; this includes an href of one character
LinkAcceptanceExact ==
    \A i \in 1..(ls.idx - 1) :
       LET href == ls.anchors[i].href
           r == urlParseRef(urlParse(ls.base), href)
       IN (\E k \in 1..Len(ls.src) : ls.src[k] = i)
          <=> /\ href # ""
              /\ ~HasPrefix(href, "#")
              /\ ~r.err
              /\ r.Scheme \in {"http", "https"}

\* C30: the passes after the main-text extraction see the whole page: every
\* heading of the page with more than HeadlineMinLen characters has its
\* headline chunk and every a element with an acceptable href has its link,
\* also inside nav, header, footer or aside
LaterPassesSeeWholePage ==
    an.pc \in {"once", "twice"}
    => \A i \in 1..Len(an.page) :
          LET n == an.page[i]
              b == urlParse("http://a/")
          IN /\ (n.tag \in HeadlineTags /\ Len(TrimSpace(n.text)) > HeadlineMinLen)
                => \E k \in 1..Len(an.run1.Chunks) :
                      /\ an.run1.Chunks[k].Type = "headline"
                      /\ an.run1.Chunks[k].Text = TrimSpace(n.text)
             /\ (n.tag = "a" /\ AcceptHref(b, n.href))
                => \E k \in 1..Len(an.run1.Links) :
                      an.run1.Links[k].URL = urlString(urlParseRef(b, n.href))

\* C32: in every Document the i-th chunk (from 0) has position i, chunk IDs
\* are pairwise distinct, and the confidence is 0.9 for a headline, 0.8 for a
\* paragraph and 0.85 for a quote (confidence in hundredths)
ChunkSequenceInvariant ==
    \A c \in {an.run1, an.run2} \ {<< >>} :
       /\ \A i \in 1..Len(c.Chunks) : c.Chunks[i].Position = i - 1
       /\ \A i, j \in 1..Len(c.Chunks) :
            i # j => c.Chunks[i].ID # c.Chunks[j].ID
       /\ \A i \in 1..Len(c.Chunks) :
            c.Chunks[i].Confidence =
               (CASE c.Chunks[i].Type = "headline" -> 90
                  [] c.Chunks[i].Type = "paragraph" -> 80
                  [] c.Chunks[i].Type = "quote" -> 85
                  [] OTHER -> -1)

\* a page was parsed into a headline, a paragraph and a quote, in this order
ChunkSequenceWitness ==
    /\ an.pc = "twice"
    /\ Len(an.run2.Chunks) = 3
    /\ an.run2.Chunks[1].Type = "headline"
    /\ an.run2.Chunks[2].Type = "paragraph"
    /\ an.run2.Chunks[3].Type = "quote"

\* C39: every message read from raw.content is handled by one task; a
\* message's offset is committed only after its cleaned document was handed
\* to the producer; and no commit covers an earlier message of the partition
\* that has not been processed successfully (one that failed to decode or is
\* still in progress)
AtLeastOnceHandling ==
    LET handed == {cp.produced[i] : i \in DOMAIN cp.produced}
    IN /\ \A o \in 0..(cp.pos - 1) : cp.task[o + 1] # "none"
       /\ \A i, j \in DOMAIN cp.produced : i # j => cp.produced[i] # cp.produced[j]
       /\ \A o \in cp.commits : o \in handed
       /\ \A o \in 0..(cp.committed - 1) : o \in handed

\* C10: every extracted link comes from an href that is neither fragment-only
\* nor mailto:, its URL has scheme http or https, a reference without scheme
\* and host keeps the page's scheme and host and ends with the reference, the
\* links are in document order, and the frontier holds extracted links only
LinkPurity ==
    /\ Len(ls.src) = Len(ls.links)
    /\ \A i \in 1..Len(ls.links) :
         LET href == ls.anchors[ls.src[i]].href
             ref  == urlParse(href)
             u    == urlParse(ls.links[i].URL)
             b    == urlParse(ls.base)
         IN /\ ~u.err
            /\ u.Scheme \in {"http", "https"}
            /\ ~HasPrefix(href, "#")
            /\ ~HasPrefix(ToLower(href), "mailto:")
            /\ (ref.Scheme = "" /\ ref.Host = "") =>
                 /\ u.Scheme = b.Scheme
                 /\ u.Host = b.Host
                 /\ ls.links[i].URL = urlString([b EXCEPT !.Path = u.Path,
                                                          !.Fragment = ref.Fragment])
                 /\ Len(u.Path) >= Len(ref.Path)
                 /\ SubSeq(u.Path, Len(u.Path) - Len(ref.Path) + 1, Len(u.Path)) = ref.Path
    /\ \A i, j \in 1..Len(ls.src) : i < j => ls.src[i] < ls.src[j]
    /\ \A k \in 1..Len(urlQueue) :
         /\ urlParse(urlQueue[k].URL).Scheme \in {"http", "https"}
         /\ \E i \in 1..ls.offered : ls.links[i].URL = urlQueue[k].URL

\* a page with a rejected fragment-only or mailto: reference and a relative
\* reference has been processed and its link is on the frontier
LinkPurityWitness ==
    /\ ls.idx > Len(ls.anchors)
    /\ \E i \in 1..Len(ls.anchors) :
         HasPrefix(ls.anchors[i].href, "#") \/ HasPrefix(ls.anchors[i].href, "mailto:")
    /\ \E i \in 1..Len(ls.links) :
         /\ urlParse(ls.anchors[ls.src[i]].href).Scheme = ""
         /\ urlParse(ls.anchors[ls.src[i]].href).Host = ""
         /\ \E k \in 1..Len(urlQueue) : urlQueue[k].URL = ls.links[i].URL

=============================================================================
